---- MODULE Spec2Model ----
(***************************************************************************)
(* Model of the Chatly conversation store (src/unnamed/part_000): the      *)
(* AES-GCM cipher helpers, loadData/saveData with their inline compaction, *)
(* the send / delivered / auto-reply / edit / delete / undo handlers and   *)
(* the timers they arm.  Time is in milliseconds.  A handler that awaits   *)
(* (encryptMessage, decryptMessage) is split at the await: everything      *)
(* before it is one action, everything after it another, and any other     *)
(* callback may run in between.                                            *)
(*                                                                         *)
(* Spec is the application with all its handlers, SpecReply the runs in    *)
(* which the user stays in one chat and sends and edits, SpecCompact the   *)
(* compaction of saveData and loadData applied to arbitrary arrays.        *)
(***************************************************************************)
EXTENDS Integers, Sequences, FiniteSets, TLC

VARIABLES
    now,        \* Date.now()
    store,      \* localStorage[STORAGE_KEY].messages (the parsed array)
    peerId,     \* state.peerId
    sending,    \* state.sending
    lastSend,   \* state.lastSend
    lastBot,    \* state.lastBot
    sendTask,   \* the sendMessage call suspended in encryptMessage
    timeouts,   \* pending setTimeout callbacks
    botTimers,  \* botTimers: convId -> timeout id
    botTasks,   \* reply callbacks suspended in encryptMessage
    editTask,   \* the onEditMessage session (its loaded data and message)
    toasts,     \* undo toasts on the page
    nextId,     \* source of crypto.randomUUID() and timeout ids
    nextIv,     \* source of crypto.getRandomValues() nonces
    lastOp,     \* history: the handler step taken last and its outcome
    replaced,   \* history: ids of replies whose timer superseded a pending one
    cIn,        \* harness: the input handed to the function under check
    cOut,       \* harness: what the function returned or left in storage
    cPc,        \* harness: "in", then the name of the step taken
    sendsLeft,  \* bound: accepted sends the run may still make
    editsLeft,  \* bound: edit sessions the run may still open
    deletesLeft, \* bound: deletes the run may still make
    opsLeft     \* bound: sends, edits and deletes the run may still make

vars == <<now, store, peerId, sending, lastSend, lastBot, sendTask,
          timeouts, botTimers, botTasks, editTask, toasts, nextId,
          nextIv, lastOp, replaced, cIn, cOut, cPc, sendsLeft, editsLeft,
          deletesLeft, opsLeft>>

appVars == <<now, store, peerId, sending, lastSend, lastBot, 
             sendTask, timeouts, botTimers, botTasks, editTask, toasts,
             nextId, nextIv, lastOp, replaced, sendsLeft, editsLeft,
             deletesLeft, opsLeft>>

harnessVars == <<cIn, cOut, cPc>>

(***************************************************************************)
(* Program constants                                                       *)
(***************************************************************************)
BUCKET_MS == 200
PREFIX_LEN == 24
PAGE_SIZE == 20
DUP_WINDOW_MS == 600
DELIVER_MS == 300
BOT_MIN_MS == 900
UNDO_MS == 6000
DEMO_SECRET == "chatly-demo-secret-v1"
Me == "me"
Null == "null"

(***************************************************************************)
(* JavaScript objects: a message is a function from the names of the       *)
(* properties it has to their values, so that an absent property and a     *)
(* property holding false are different objects.                           *)
(***************************************************************************)
Has(m, f) == f \in DOMAIN m

SetField(m, f, v) == [k \in (DOMAIN m) \cup {f} |-> IF k = f THEN v ELSE m[k]]

\* Object.assign(target, source)
ObjectAssign(target, source) ==
    [k \in (DOMAIN target) \cup (DOMAIN source) |->
        IF k \in DOMAIN source THEN source[k] ELSE target[k]]

\* (m.createdAt || 0)
CreatedAtOr0(m) == IF Has(m, "createdAt") THEN m.createdAt ELSE 0

\* !!m.deleted
IsDeleted(m) == Has(m, "deleted") /\ m.deleted

Min(a, b) == IF a <= b THEN a ELSE b
Max(a, b) == IF a >= b THEN a ELSE b

(***************************************************************************)
(* Compaction (inline in loadData and saveData)                            *)
(***************************************************************************)
\* A JavaScript Map as the sequence of its <<key, value>> entries in
\* insertion order; set() of a key already present keeps its position.
MapHas(map, k) == \E i \in 1..Len(map) : map[i][1] = k

MapGet(map, k) == map[CHOOSE i \in 1..Len(map) : map[i][1] = k][2]

MapSet(map, k, v) ==
    IF MapHas(map, k)
    THEN [i \in 1..Len(map) |-> IF map[i][1] = k THEN <<k, v>> ELSE map[i]]
    ELSE Append(map, <<k, v>>)

MapValues(map) == [i \in 1..Len(map) |-> map[i][2]]

\* for (const m of messages) if (m && m.id) byId.set(m.id, m)
RECURSIVE ByIdFrom(_, _, _)
ByIdFrom(messages, i, byId) ==
    IF i > Len(messages) THEN byId
    ELSE LET m == messages[i] IN
         ByIdFrom(messages, i + 1,
                  IF Has(m, "id") THEN MapSet(byId, m.id, m) ELSE byId)

ById(messages) == ByIdFrom(messages, 1, <<>>)

\* Math.round(x / BUCKET_MS) for x >= 0: halves round up
Bucket(createdAt) == (createdAt + (BUCKET_MS \div 2)) \div BUCKET_MS

\* m.cipher.iv.join(",") -- "" both for a missing and for an empty array
IvStr(m) == IF Has(m, "cipher") THEN m.cipher.iv ELSE <<>>

\* m.cipher.data.slice(0, 24).join(",")
DataStr(m) ==
    IF Has(m, "cipher")
    THEN SubSeq(m.cipher.data, 1, Min(PREFIX_LEN, Len(m.cipher.data)))
    ELSE <<>>

\* [m.convId, m.from, m.to, bucket, ivStr, dataStr].join("|")
Fingerprint(m) ==
    <<m.convId, m.from, m.to, Bucket(CreatedAtOr0(m)), IvStr(m), DataStr(m)>>

FpFloorBucket(byFp, m) ==
    LET fp == <<m.convId, m.from, m.to, CreatedAtOr0(m) \div BUCKET_MS,
                IvStr(m), DataStr(m)>> IN
    IF ~MapHas(byFp, fp) \/ CreatedAtOr0(m) >= CreatedAtOr0(MapGet(byFp, fp))
    THEN MapSet(byFp, fp, m) ELSE byFp

\* a faulty variant: on a tie the entry met first stays
FpStepFirstWins(byFp, m) ==
    LET fp == Fingerprint(m) IN
    IF ~MapHas(byFp, fp) \/ CreatedAtOr0(m) > CreatedAtOr0(MapGet(byFp, fp))
    THEN MapSet(byFp, fp, m) ELSE byFp

\* if (!prev || m.createdAt >= prev.createdAt) byFp.set(fp, m)
FpStep(byFp, m) ==
    LET fp == Fingerprint(m) IN
    IF ~MapHas(byFp, fp) \/ CreatedAtOr0(m) >= CreatedAtOr0(MapGet(byFp, fp))
    THEN MapSet(byFp, fp, m) ELSE byFp

RECURSIVE ByFpFrom(_, _, _)
ByFpFrom(arr, i, byFp) ==
    IF i > Len(arr) THEN byFp
    ELSE ByFpFrom(arr, i + 1, FpStep(byFp, arr[i]))

ByFp(arr) == ByFpFrom(arr, 1, <<>>)

\* Array.prototype.sort with (a, b) => a.createdAt - b.createdAt is stable:
\* an element goes after every element that does not compare greater.
InsertUnstable(sorted, m) ==
    LET k == Cardinality({i \in 1..Len(sorted) :
                            CreatedAtOr0(sorted[i]) < CreatedAtOr0(m)})
    IN SubSeq(sorted, 1, k) \o <<m>> \o SubSeq(sorted, k + 1, Len(sorted))

InsertAtEnd(sorted, m) == Append(sorted, m)

InsertSorted(sorted, m) ==
    LET k == Cardinality({i \in 1..Len(sorted) :
                            CreatedAtOr0(sorted[i]) <= CreatedAtOr0(m)})
    IN SubSeq(sorted, 1, k) \o <<m>> \o SubSeq(sorted, k + 1, Len(sorted))

RECURSIVE SortFrom(_, _, _)
SortFrom(arr, i, sorted) ==
    IF i > Len(arr) THEN sorted
    ELSE SortFrom(arr, i + 1, InsertSorted(sorted, arr[i]))

SortByCreatedAt(arr) == SortFrom(arr, 1, <<>>)

IdentityMergeSkipped(messages) == messages

\* byId ... Array.from(byId.values())
IdentityMerge(messages) == MapValues(ById(messages))

\* the whole inline compaction
Compact(messages) ==
    SortByCreatedAt(MapValues(ByFp(IdentityMerge(messages))))

\* a faulty variant: the copy of the compaction in loadData buckets with
\* Math.floor while the copy in saveData rounds
RECURSIVE LoadFloorFrom(_, _, _)
LoadFloorFrom(arr, i, byFp) ==
    IF i > Len(arr) THEN byFp
    ELSE LoadFloorFrom(arr, i + 1, FpFloorBucket(byFp, arr[i]))

LoadDataFloorBucket(raw) ==
    SortByCreatedAt(MapValues(LoadFloorFrom(IdentityMerge(raw), 1, <<>>)))

\* loadData: the same compaction, written back to storage
LoadData(raw) == Compact(raw)

(***************************************************************************)
(* Text: a string is the sequence of its characters.                       *)
(***************************************************************************)
UpperChars == <<"A", "B", "C", "D", "E", "F", "G", "H", "I", "J", "K", "L", "M",
                "N", "O", "P", "Q", "R", "S", "T", "U", "V", "W", "X", "Y", "Z">>
LowerChars == <<"a", "b", "c", "d", "e", "f", "g", "h", "i", "j", "k", "l", "m",
                "n", "o", "p", "q", "r", "s", "t", "u", "v", "w", "x", "y", "z">>

LowerChar(c) ==
    IF \E i \in 1..Len(UpperChars) : UpperChars[i] = c
    THEN LowerChars[CHOOSE i \in 1..Len(UpperChars) : UpperChars[i] = c]
    ELSE c

\* String.prototype.toLowerCase
ToLowerCase(t) == [i \in 1..Len(t) |-> LowerChar(t[i])]

IsSpace(c) == c \in {" ", "\t", "\n"}

\* a faulty variant: it trims nothing
TrimNothing(t) == t

\* String.prototype.trim
Trim(t) ==
    LET keep == {i \in 1..Len(t) : ~IsSpace(t[i])} IN
    IF keep = {} THEN <<>>
    ELSE LET lo == CHOOSE i \in keep : \A j \in keep : i <= j
             hi == CHOOSE i \in keep : \A j \in keep : i >= j
         IN SubSeq(t, lo, hi)

\* String.prototype.includes
Includes(t, kw) ==
    \E i \in 0..(Len(t) - Len(kw)) : SubSeq(t, i + 1, i + Len(kw)) = kw

ReplyHello == <<"Hello! How can I help you today?">>
ReplyHowAreYou == <<"I'm good, Thanks! Working on some UI polish.">>
ReplyTheme == <<"Try toggling light/dark - your preference is saved.">>
ReplyEdit == <<"You can edit your last message via the pencil icon.">>
ReplyDelete == <<"Deleted by you - with an undo window!">>
ReplyScroll == <<"Scroll up to load older messages. Smooth and fast.">>
ReplyDefault == <<"Got it! I'll keep that in mind.">>

botReply(text) ==
    LET t == Trim(ToLowerCase(text)) IN
    IF Includes(t, <<"h", "e", "l", "l", "o">>) \/ Includes(t, <<"h", "i">>)
        THEN ReplyHello
    ELSE IF Includes(t, <<"h", "o", "w", " ", "a", "r", "e", " ", "y", "o", "u">>)
        THEN ReplyHowAreYou
    ELSE IF Includes(t, <<"t", "h", "e", "m", "e">>) THEN ReplyTheme
    ELSE IF Includes(t, <<"e", "d", "i", "t">>) THEN ReplyEdit
    ELSE IF Includes(t, <<"d", "e", "l", "e", "t", "e">>) THEN ReplyDelete
    ELSE IF Includes(t, <<"p", "a", "g", "i", "n", "a", "t", "e">>)
            \/ Includes(t, <<"s", "c", "r", "o", "l", "l">>) THEN ReplyScroll
    ELSE ReplyDefault

(***************************************************************************)
(* Cipher (AES-GCM, symbolically): byte i of the ciphertext is determined  *)
(* by the key, the nonce, the position and the plaintext byte; the tag by  *)
(* key, nonce and the whole plaintext.                                     *)
(***************************************************************************)
getConversationId(peer) == <<"conv", peer>>

deriveKey(conversationId) == <<DEMO_SECRET, conversationId>>

\* code units a text may hold besides ordinary characters
BOM == "U+FEFF"                 \* the byte order mark
LoneSurrogate == "U+D800"       \* a surrogate with no partner
ReplacementChar == "U+FFFD"

\* new TextEncoder().encode(s): the scalar values the UTF-8 bytes stand for;
\* a lone surrogate is encoded as U+FFFD
TextEncode(s) ==
    [i \in 1..Len(s) |-> IF s[i] = LoneSurrogate THEN ReplacementChar ELSE s[i]]

\* new TextDecoder().decode(bytes): a leading byte order mark is dropped
TextDecode(bytes) ==
    IF bytes # <<>> /\ bytes[1] = BOM THEN Tail(bytes) ELSE bytes

\* AES-GCM: one block per unit of plaintext and the tag, each bound to the
\* key and the nonce
AesGcmEncrypt(key, iv, pt) ==
    [i \in 1..Len(pt) |-> <<key, iv, i, <<pt[i]>> >>] \o << <<key, iv, 0, pt>> >>

\* iv: the nonce drawn by crypto.getRandomValues
encryptMessage(conversationId, plaintext, iv) ==
    [iv |-> <<iv>>,
     data |-> AesGcmEncrypt(deriveKey(conversationId), iv,
                            TextEncode(plaintext))]

Sentinel == <<"[Unable to decrypt]">>

\* new Uint8Array(cipher.iv), new Uint8Array(cipher.data): empty when the
\* field is missing
BytesOf(cipher, field) == IF Has(cipher, field) THEN cipher[field] ELSE <<>>

\* the units the blocks carry, whatever the tag says
BlocksText(data) == [i \in 1..(Len(data) - 1) |-> data[i][4][1]]

\* crypto.subtle.decrypt succeeds: every block and the tag were made under
\* this key and nonce for this plaintext
AesGcmVerifies(key, iv, data) ==
    /\ Len(iv) = 1
    /\ Len(data) >= 1
    /\ \A i \in 1..(Len(data) - 1) : /\ data[i][1] = key
                                     /\ data[i][2] = iv[1]
                                     /\ data[i][3] = i
    /\ data[Len(data)] = <<key, iv[1], 0, BlocksText(data)>>

\* a faulty variant: it hands out the blocks it could read without checking the tag
decryptMessageUnverified(conversationId, cipher) ==
    LET data == BytesOf(cipher, "data")
    IN IF data = <<>> THEN Sentinel ELSE TextDecode(BlocksText(data))

\* every failure inside the try block ends in the catch: cipher undefined
\* (modelled as the object with no fields), missing or empty iv or data, a
\* key or nonce that does not verify the tag
decryptMessage(conversationId, cipher) ==
    LET key == deriveKey(conversationId)
        iv == BytesOf(cipher, "iv")
        data == BytesOf(cipher, "data")
    IN IF AesGcmVerifies(key, iv, data)
       THEN TextDecode(BlocksText(data))
       ELSE Sentinel

(***************************************************************************)
(* Bounds                                                                  *)
(***************************************************************************)
MaxLen == 3         \* longest message array handed to the compaction harness
MaxSends == 2       \* accepted sends per run
MaxTicks == 1       \* clock ticks per run
MaxDeletes == 1     \* deletes per run
MaxEdits == 1       \* edit sessions per run
MaxOps == 2         \* sends, edits and deletes per run, all together
ReplySends == 2     \* accepted sends per run of SpecReply
ReplyEdits == 1     \* edit sessions per run of SpecReply
ReplyOps == 3         \* sends and edits per run of SpecReply, all together
ClickSends == 2       \* accepted sends per run of SpecSend

(***************************************************************************)
(* Compaction harness: saveData and loadData applied to arbitrary message  *)
(* arrays (repeated ids, colliding fingerprints, any order).               *)
(***************************************************************************)
HarnessConv == getConversationId("u-1")

\* two plaintexts that agree on their first PREFIX_LEN characters
LongText(last) == [i \in 1..(PREFIX_LEN + 1) |-> IF i <= PREFIX_LEN THEN "x" ELSE last]

HarnessCiphers ==
    {encryptMessage(HarnessConv, LongText("a"), 1),
     encryptMessage(HarnessConv, LongText("b"), 1)}

HarnessTimes == {0, BUCKET_MS \div 2, BUCKET_MS}

HarnessIds == {1, 2, 3}

HarnessPool ==
    {[id |-> i, convId |-> HarnessConv, from |-> Me, to |-> "u-1", cipher |-> c,
      createdAt |-> t, status |-> "sent"] :
        i \in HarnessIds, c \in HarnessCiphers, t \in HarnessTimes}
    \cup {[id |-> 1, convId |-> HarnessConv, from |-> "u-1", to |-> Me,
           status |-> "delivered"],
          [convId |-> HarnessConv, from |-> Me, to |-> "u-1",
           cipher |-> encryptMessage(HarnessConv, LongText("a"), 1),
           createdAt |-> 0, status |-> "sent"]}

RECURSIVE SeqsUpTo(_, _)
SeqsUpTo(S, n) ==
    IF n = 0 THEN {<<>>}
    ELSE LET shorter == SeqsUpTo(S, n - 1) IN
         shorter \cup {Append(q, x) : q \in {r \in shorter : Len(r) = n - 1}, x \in S}

\* saveData(data) with data.messages = cIn
HarnessSave ==
    /\ cPc = "in"
    /\ cOut' = Compact(cIn)
    /\ cPc' = "saved"
    /\ UNCHANGED <<cIn, appVars>>

\* loadData() on what saveData wrote
HarnessLoad ==
    /\ cPc = "saved"
    /\ cOut' = LoadData(cOut)
    /\ cPc' = "loaded"
    /\ UNCHANGED <<cIn, appVars>>

NextCompact == HarnessSave \/ HarnessLoad

(***************************************************************************)
(* The application                                                         *)
(***************************************************************************)
CONTACTS == {"u-1", "u-2"}      \* the first two of the four contacts
NoPeer == Null

Convs == {getConversationId(c) : c \in CONTACTS}

\* what the user may have typed into the composer when clicking Send
InputTexts == {<<"H", "i">>, <<"o", "k">>}

\* what the user may leave in the bubble when an edit ends
EditTexts == {<<"y", "o">>, <<" ">>, <<"Hi! How are you?">>}

SeedOldMs == 120000
SeedNewMs == 60000
SeedSeenMs == 50000
T0 == SeedOldMs + 1000          \* the clock when the page has started

\* granularity of the modelled clock
Tick == DELIVER_MS

\* the end of the modelled run: every timer armed before is due by then
Horizon == T0 + MaxTicks * Tick + UNDO_MS

\* 900 + Math.random() * 700, the random part drawn as 0: every reply timer
\* is due long before Horizon, whatever was drawn
BotDelays == {BOT_MIN_MS}

StatusRank(s) == CASE s = "sent" -> 1 [] s = "delivered" -> 2 [] s = "seen" -> 3

Ids(messages) == {messages[i].id : i \in 1..Len(messages)}

\* data.messages.find(x => x.id === id): the index of the first match, 0 if none
\* a faulty variant: it falls back to the last message when the id is not found
FindIdxOrLast(messages, id) ==
    IF \E i \in 1..Len(messages) : messages[i].id = id
    THEN CHOOSE i \in 1..Len(messages) :
            /\ messages[i].id = id
            /\ \A j \in 1..(i - 1) : messages[j].id # id
    ELSE Len(messages)

\* data.messages.find(x => x.id === id): the place of the first match, 0 if
\* there is none
FindIdx(messages, id) ==
    IF \E i \in 1..Len(messages) : messages[i].id = id
    THEN CHOOSE i \in 1..Len(messages) :
            /\ messages[i].id = id
            /\ \A j \in 1..(i - 1) : messages[j].id # id
    ELSE 0

ReplaceAt(messages, i, m) == [messages EXCEPT ![i] = m]

\* saveData(data)
SaveData(messages) == Compact(messages)

\* saveData(data) and the loadData of the re-render that follows it
Persist(messages) == LoadData(SaveData(messages))

\* a faulty variant: it returns the oldest page instead of the newest
getVisibleMessagesOldest(messages, peer, pageIndex) ==
    IF peer = NoPeer THEN [slice |-> <<>>, total |-> 0]
    ELSE LET all == SelectSeq(messages, LAMBDA m :
                        m.convId = getConversationId(peer) /\ ~IsDeleted(m))
             total == Len(all)
         IN [slice |-> SubSeq(all, 1, Min(total, PAGE_SIZE * (pageIndex + 1))),
             total |-> total]

VisibleAllWithTombstones(messages, convId) ==
    SelectSeq(messages, LAMBDA m : m.convId = convId)

\* getVisibleMessages
VisibleAll(messages, convId) ==
    SelectSeq(messages, LAMBDA m : m.convId = convId /\ ~IsDeleted(m))

getVisibleMessages(messages, peer, pageIndex) ==
    IF peer = NoPeer THEN [slice |-> <<>>, total |-> 0]
    ELSE LET all == VisibleAll(messages, getConversationId(peer))
             total == Len(all)
             start == Max(0, total - PAGE_SIZE * (pageIndex + 1))
         IN [slice |-> SubSeq(all, start + 1, total), total |-> total]

\* the messages that have a bubble (with its edit / delete buttons) on the page
Rendered == getVisibleMessages(store, peerId, 0).slice

\* String(n) of a timestamp, as its decimal digits
RECURSIVE DecimalString(_)
DecimalString(n) ==
    IF n < 10 THEN <<n>> ELSE Append(DecimalString(n \div 10), n % 10)

\* parseInt(raw, 10) of a string of decimal digits
RECURSIVE parseInt(_)
parseInt(raw) ==
    IF Len(raw) = 1 THEN raw[1]
    ELSE 10 * parseInt(SubSeq(raw, 1, Len(raw) - 1)) + raw[Len(raw)]

\* every peer message of the slice, read or not
UnreadAnyTime(slice, lastReadTs) ==
    SelectSeq(slice, LAMBDA m : m.from # Me /\ ~IsDeleted(m))

\* setupUnreadJump: the unread messages of a slice; lastReadTs: the parsed
\* LAST_READ_KEY entry of the conversation, 0 if there is none
Unread(slice, lastReadTs) ==
    SelectSeq(slice, LAMBDA m :
        m.createdAt > lastReadTs /\ m.from # Me /\ ~IsDeleted(m))

\* data.messages.filter(m => m.convId === convId) of the scroll handler
ConversationAll(messages, convId) ==
    SelectSeq(messages, LAMBDA m : m.convId = convId)

\* the scroll handler with scrollTop = 0: the state.pageIndex it leaves
onScrollTop(messages, peer, pageIndex) ==
    IF peer = NoPeer THEN pageIndex
    ELSE LET count == Len(ConversationAll(messages, getConversationId(peer)))
         IN IF PAGE_SIZE * (pageIndex + 1) < count THEN pageIndex + 1
            ELSE pageIndex

\* setupUnreadJump(): the unread list, the count on the button and whether
\* the button is shown; lastReadRaw: localStorage.getItem(LAST_READ_KEY:convId),
\* Null if there is no entry
setupUnreadJump(messages, peer, pageIndex, lastReadRaw) ==
    IF peer = NoPeer THEN [unread |-> <<>>, count |-> 0, shown |-> FALSE]
    ELSE LET lastReadTs == IF lastReadRaw = Null \/ lastReadRaw = <<>> THEN 0
                           ELSE parseInt(lastReadRaw)
             slice == getVisibleMessages(messages, peer, pageIndex).slice
             unread == Unread(slice, lastReadTs)
         IN [unread |-> unread, count |-> Len(unread),
             shown |-> Len(unread) > 0]

\* updateSidebarPreviews: msgs.at(-1) of a contact, <<>> for "No messages yet"
SidebarLast(messages, contact) ==
    LET msgs == SelectSeq(messages, LAMBDA m :
                    m.convId = getConversationId(contact) /\ ~IsDeleted(m))
    IN IF msgs = <<>> THEN <<>> ELSE <<msgs[Len(msgs)]>>

\* history records: the handler step, its outcome, and what it was about
Op(op, res, id, text, pre) ==
    [op |-> op, res |-> res, id |-> id, text |-> text, pre |-> pre]

Other == Op("other", "", 0, <<>>, <<>>)

SeedMessages ==
    <<[id |-> 1, convId |-> getConversationId("u-1"), from |-> "u-1", to |-> Me,
       cipher |-> encryptMessage(getConversationId("u-1"), <<"Hello!">>, 1),
       createdAt |-> T0 - SeedOldMs, status |-> "delivered"],
      [id |-> 2, convId |-> getConversationId("u-1"), from |-> Me, to |-> "u-1",
       cipher |-> encryptMessage(getConversationId("u-1"), <<"Hi! How are you?">>, 2),
       createdAt |-> T0 - SeedNewMs, status |-> "seen", seenAt |-> T0 - SeedSeenMs]>>

HarnessIdle == cIn = <<>> /\ cOut = <<>> /\ cPc = "idle"

\* start(): loadData, seedDemoIfEmpty, bindSendButtonOnce
AppStart ==
    /\ now = T0
    /\ store = SaveData(SeedMessages)
    /\ peerId = NoPeer
    /\ sending = FALSE
    /\ lastSend = <<>>
    /\ lastBot = <<>>
    /\ sendTask = {}
    /\ timeouts = {}
    /\ botTimers = [c \in Convs |-> 0]
    /\ botTasks = {}
    /\ editTask = {}
    /\ toasts = {}
    /\ nextId = 3
    /\ nextIv = 3
    /\ lastOp = Other
    /\ replaced = {}

Budget(sends, edits, deletes, ops) ==
    /\ sendsLeft = sends /\ editsLeft = edits /\ deletesLeft = deletes
    /\ opsLeft = ops

Init == AppStart /\ HarnessIdle /\ Budget(MaxSends, MaxEdits, MaxDeletes, MaxOps)

InitCompact ==
    /\ AppStart /\ Budget(0, 0, 0, 0)
    /\ cIn \in SeqsUpTo(HarnessPool, MaxLen)
    /\ cOut = cIn
    /\ cPc = "in"

\* time passes: one tick, or the page is left alone until the horizon
Advance ==
    \E t \in {now + Tick, Horizon} :
        /\ now < T0 + MaxTicks * Tick
        /\ now' = t
        /\ lastOp' = Other
        /\ UNCHANGED harnessVars
        /\ UNCHANGED <<store, peerId, sending, lastSend, lastBot, 
                       sendTask, timeouts, botTimers, botTasks, editTask, toasts,
                       nextId, nextIv, replaced, sendsLeft, editsLeft, deletesLeft, opsLeft>>

(***************************************************************************)
(* Send                                                                    *)
(***************************************************************************)
IsDupNever(last, convId, text, ts) == FALSE

\* state.lastSend && lastSend.convId === convId && lastSend.text === text
\*   && now - lastSend.ts < 600   (the same test guards state.lastBot)
IsDup(last, convId, text, ts) ==
    /\ last # <<>>
    /\ last[1].convId = convId
    /\ last[1].text = text
    /\ ts - last[1].ts < DUP_WINDOW_MS

\* a faulty variant: it does not look at state.sending
sendOutcomeAnyTime(text) ==
    IF peerId = NoPeer THEN "nochat"
    ELSE IF IsDup(lastSend, getConversationId(peerId), text, now) THEN "dup"
    ELSE "accepted"

\* the early returns of sendMessage: no chat open, a send under way, a
\* repetition within 600 ms
sendOutcome(text) ==
    IF peerId = NoPeer THEN "nochat"
    ELSE IF sending THEN "busy"
    ELSE IF IsDup(lastSend, getConversationId(peerId), text, now) THEN "dup"
    ELSE "accepted"

\* sendMessage(text) up to its await; onSendClick calls it with the trimmed,
\* non-empty text of the composer
SendMessage(text) ==
    LET convId == getConversationId(peerId)
        res == sendOutcome(text)
    IN /\ lastOp' = IF res \in {"busy", "dup", "accepted"}
                  THEN Op("send", res, 0, text, <<>>) ELSE Other
       /\ IF res = "accepted"
          THEN /\ sendsLeft > 0 /\ opsLeft > 0
               /\ lastSend' = <<[convId |-> convId, text |-> text, ts |-> now]>>
               /\ sending' = TRUE
               /\ store' = LoadData(store)
               /\ sendTask' = {[convId |-> convId, text |-> text, now |-> now,
                                peerIdAtSend |-> peerId, data |-> LoadData(store)]}
               /\ sendsLeft' = sendsLeft - 1
               /\ opsLeft' = opsLeft - 1
          ELSE UNCHANGED <<lastSend, sending, store, sendTask, sendsLeft,
                           opsLeft>>
       /\ UNCHANGED harnessVars
       /\ UNCHANGED <<now, peerId, lastBot, timeouts, botTimers, botTasks,
                      editTask, toasts, nextId, nextIv, replaced, editsLeft,
                      deletesLeft>>

\* a faulty variant: it hands the text of the composer to sendMessage as it is
onSendClickUnchecked(raw) == SendMessage(raw)

\* onSendClick with the click gate open: the composer holds raw
onSendClick(raw) ==
    LET text == Trim(raw) IN
    IF text = <<>>
    THEN /\ lastOp' = Op("send", "blank", 0, raw, <<>>)
         /\ UNCHANGED harnessVars
         /\ UNCHANGED <<now, store, peerId, sending, lastSend, lastBot,
                        sendTask, timeouts, botTimers, botTasks, editTask,
                        toasts, nextId, nextIv, replaced, sendsLeft, editsLeft,
                        deletesLeft, opsLeft>>
    ELSE SendMessage(text)

ClearNothing(pending, prev) == pending

\* clearTimeout(prev)
ClearTimeout(pending, prev) ==
    {t \in pending : ~(t.kind = "bot" /\ t.tid = prev)}

\* simulateBotResponse({userText, convId, peerId}); pending: the timeouts so
\* far, tid: the id of the timeout it arms, delay: its random delay
simulateBotResponse(userText, convId, peer, pending, tid, delay) ==
    IF IsDup(lastBot, convId, userText, now)
    THEN /\ timeouts' = pending
         /\ UNCHANGED <<lastBot, botTimers>>
    ELSE LET prev == botTimers[convId]
             supersedes ==
                \E t \in pending :
                    t.kind = "bot" /\ t.tid = prev /\ t.userText # userText
         IN /\ lastBot' = <<[convId |-> convId, text |-> userText, ts |-> now]>>
            /\ timeouts' =
                 (IF prev # 0 THEN ClearTimeout(pending, prev) ELSE pending)
                 \cup {[kind |-> "bot", tid |-> tid, convId |-> convId,
                        peerId |-> peer, userText |-> userText,
                        due |-> now + delay, supersedes |-> supersedes]}
            /\ botTimers' = [botTimers EXCEPT ![convId] = tid]

\* sendMessage after the await: push, saveData, the two timers, finally
SendFinish ==
    \E t \in sendTask, delay \in BotDelays :
        LET msg == [id |-> nextId, convId |-> t.convId, from |-> Me,
                    to |-> t.peerIdAtSend,
                    cipher |-> encryptMessage(t.convId, t.text, nextIv),
                    createdAt |-> t.now, status |-> "sent"]
            pending == timeouts \cup {[kind |-> "deliver", id |-> msg.id,
                                       due |-> now + DELIVER_MS]}
        IN /\ store' = Persist(Append(t.data, msg))
           /\ simulateBotResponse(t.text, t.convId, t.peerIdAtSend, pending,
                                  msg.id, delay)
           /\ sending' = FALSE
           /\ sendTask' = {}
           /\ nextId' = nextId + 1
           /\ nextIv' = nextIv + 1
           /\ lastOp' = Other
           /\ UNCHANGED harnessVars
           /\ UNCHANGED <<now, peerId, lastSend, botTasks, editTask,
                          toasts, replaced, sendsLeft, editsLeft, deletesLeft, opsLeft>>

\* a faulty variant: it marks the message seen whatever status is asked for
UpdateStatusSeen(messages, messageId, status, ts) ==
    LET i == FindIdx(messages, messageId) IN
    IF i = 0 THEN messages
    ELSE Persist(ReplaceAt(messages, i,
             SetField(SetField(messages[i], "status", "seen"), "seenAt", ts)))

\* updateStatus(messageId, status) on the loaded data; ts: Date.now()
UpdateStatus(messages, messageId, status, ts) ==
    LET i == FindIdx(messages, messageId) IN
    IF i = 0 THEN messages
    ELSE LET m1 == SetField(messages[i], "status", status)
             m2 == IF status = "seen" THEN SetField(m1, "seenAt", ts) ELSE m1
         IN Persist(ReplaceAt(messages, i, m2))

\* the event loop runs a timeout once it is due and every timeout due
\* earlier has run
Due(t) == now >= t.due /\ \A u \in timeouts : u.due >= t.due

\* setTimeout(() => updateStatus(msg.id, "delivered"), 300)
FireDeliver ==
    \E t \in timeouts :
        /\ t.kind = "deliver" /\ Due(t)
        /\ store' = UpdateStatus(LoadData(store), t.id, "delivered", now)
        /\ timeouts' = timeouts \ {t}
        /\ lastOp' = Other
        /\ UNCHANGED harnessVars
        /\ UNCHANGED <<now, peerId, sending, lastSend, lastBot, 
                       sendTask, botTimers, botTasks, editTask, toasts, 
                       nextId, nextIv, replaced, sendsLeft, editsLeft, deletesLeft, opsLeft>>

(***************************************************************************)
(* Receipts                                                                *)
(***************************************************************************)
\* a faulty variant: it marks the unseen peer messages of every conversation, tombstones too
MarkSeenReadsEverywhere(messages, convId, reads) ==
    [i \in 1..Len(messages) |->
        LET m == messages[i] IN
        IF m.from # Me /\ m.status # "seen"
        THEN SetField(SetField(m, "status", "seen"), "seenAt", reads[i])
        ELSE m]

\* a faulty variant: it marks the messages seen and leaves seenAt alone
MarkSeenReadsNoStamp(messages, convId, reads) ==
    [i \in 1..Len(messages) |->
        LET m == messages[i] IN
        IF m.convId = convId /\ m.from # Me /\ ~IsDeleted(m) /\ m.status # "seen"
        THEN SetField(m, "status", "seen")
        ELSE m]

\* the forEach of markAllSeenIfAtBottom; reads[i] is what Date.now() returns
\* when message i is visited (m.seenAt = Date.now() is evaluated per message)
MarkSeenReads(messages, convId, reads) ==
    [i \in 1..Len(messages) |->
        LET m == messages[i] IN
        IF m.convId = convId /\ m.from # Me /\ ~IsDeleted(m) /\ m.status # "seen"
        THEN SetField(SetField(m, "status", "seen"), "seenAt", reads[i])
        ELSE m]

\* the same when the clock does not move during the loop
MarkSeen(messages, convId, ts) ==
    MarkSeenReads(messages, convId, [i \in 1..Len(messages) |-> ts])

\* markAllSeenIfAtBottom(): what it leaves in storage (it saves only if a
\* message changed) and under LAST_READ_KEY of the open conversation; the
\* last element of reads is the Date.now() written as the read marker
markAllSeenIfAtBottom(messages, peer, nearBottom, lastRead, reads) ==
    IF peer = NoPeer \/ ~nearBottom
    THEN [messages |-> messages, lastRead |-> lastRead]
    ELSE LET data == LoadData(messages)
             marked == MarkSeenReads(data, getConversationId(peer), reads)
         IN [messages |-> IF marked # data THEN Persist(marked) ELSE data,
             lastRead |-> reads[Len(reads)]]

\* markAllSeenIfAtBottom with the viewport near the bottom and the clock
\* standing at ts: what it leaves in storage
MarkAllSeenStore(messages, peer, ts) ==
    markAllSeenIfAtBottom(messages, peer, TRUE, 0,
                          [i \in 1..(Len(messages) + 1) |-> ts]).messages

\* scroll, visibilitychange, or the end of switchConversation
MarkAllSeenIfAtBottom ==
    /\ peerId # NoPeer
    /\ store' = MarkAllSeenStore(store, peerId, now)
    /\ lastOp' = Other
    /\ UNCHANGED harnessVars
    /\ UNCHANGED <<now, peerId, sending, lastSend, lastBot, sendTask,
                   timeouts, botTimers, botTasks, editTask, toasts, nextId,
                   nextIv, replaced, sendsLeft, editsLeft, deletesLeft, opsLeft>>

\* switchConversation(p) up to its await (renderSidebar reads storage)
SwitchConversation(p) ==
    /\ peerId # p
    /\ peerId' = p
    /\ store' = LoadData(store)
    /\ lastOp' = Other
    /\ UNCHANGED harnessVars
    /\ UNCHANGED <<now, sending, lastSend, lastBot, sendTask, timeouts,
                   botTimers, botTasks, editTask, toasts, nextId, nextIv,
                   replaced, sendsLeft, editsLeft, deletesLeft, opsLeft>>

\* closeChatBtn click
CloseChat ==
    /\ peerId # NoPeer
    /\ peerId' = NoPeer
    /\ store' = LoadData(store)
    /\ lastOp' = Other
    /\ UNCHANGED harnessVars
    /\ UNCHANGED <<now, sending, lastSend, lastBot, sendTask,
                   timeouts, botTimers, botTasks, editTask, toasts, 
                   nextId, nextIv, replaced, sendsLeft, editsLeft, deletesLeft, opsLeft>>

(***************************************************************************)
(* Auto-reply                                                              *)
(***************************************************************************)
\* the reply timer's callback up to its await
FireBot ==
    \E t \in timeouts :
        /\ t.kind = "bot" /\ Due(t)
        /\ timeouts' = timeouts \ {t}
        /\ botTimers' = [botTimers EXCEPT ![t.convId] = 0]
        /\ store' = LoadData(store)
        /\ botTasks' = botTasks \cup
                {[tid |-> t.tid, convId |-> t.convId, peerId |-> t.peerId,
                  reply |-> botReply(t.userText), data |-> LoadData(store),
                  supersedes |-> t.supersedes]}
        /\ lastOp' = Other
        /\ UNCHANGED harnessVars
        /\ UNCHANGED <<now, peerId, sending, lastSend, lastBot, 
                       sendTask, editTask, toasts, nextId, nextIv,
                       replaced, sendsLeft, editsLeft, deletesLeft, opsLeft>>

\* a reply addressed to whichever conversation is open when the callback ends
replyMessageToOpen(t, id, iv, ts) ==
    LET peer == IF peerId = NoPeer THEN t.peerId ELSE peerId
        convId == getConversationId(peer)
    IN [id |-> id, convId |-> convId, from |-> peer, to |-> Me,
        cipher |-> encryptMessage(convId, t.reply, iv),
        createdAt |-> ts, status |-> "delivered"]

\* the msg object of the reply callback: convId and peerId are those the
\* send handed to simulateBotResponse
replyMessage(t, id, iv, ts) ==
    [id |-> id, convId |-> t.convId, from |-> t.peerId, to |-> Me,
     cipher |-> encryptMessage(t.convId, t.reply, iv),
     createdAt |-> ts, status |-> "delivered"]

\* the callback after the await; nearBottom: where the viewport is
BotFinish ==
    \E t \in botTasks, nearBottom \in BOOLEAN :
        LET msg == replyMessage(t, nextId, nextIv, now)
            saved == SaveData(Append(t.data, msg))
            open == peerId # NoPeer /\ getConversationId(peerId) = t.convId
        IN /\ store' = IF open /\ nearBottom
                       THEN MarkAllSeenStore(saved, peerId, now)
                       ELSE LoadData(saved)
           /\ botTasks' = botTasks \ {t}
           /\ replaced' = IF t.supersedes THEN replaced \cup {msg.id} ELSE replaced
           /\ nextId' = nextId + 1
           /\ nextIv' = nextIv + 1
           /\ lastOp' = Op("reply",
                           IF ~open THEN "away"
                           ELSE IF nearBottom THEN "read" ELSE "open",
                           msg.id, <<>>, <<>>)
           /\ UNCHANGED harnessVars
           /\ UNCHANGED <<now, peerId, sending, lastSend, lastBot, 
                          sendTask, timeouts, botTimers, editTask, toasts,
                          sendsLeft, editsLeft, deletesLeft, opsLeft>>

(***************************************************************************)
(* Edit                                                                    *)
(***************************************************************************)
\* One bubble is edited at a time: focusing another one blurs the first.
\* onEditMessage up to the point where the bubble is editable: what it leaves
\* in storage and the edit it has begun (none if the id is not stored)
onEditMessage(messages, peer, id) ==
    LET data == LoadData(messages)
        i == FindIdx(data, id)
        convId == getConversationId(peer)
    IN IF i = 0 THEN [messages |-> data, editing |-> {}]
       ELSE [messages |-> data,
             editing |-> {[id |-> id, convId |-> convId, data |-> data,
                           original |-> decryptMessage(convId, data[i].cipher),
                           phase |-> "editing", newText |-> <<>>]}]

EditBegin ==
    \E k \in 1..Len(Rendered) :
        LET id == Rendered[k].id
            begun == onEditMessage(store, peerId, id)
        IN /\ editTask = {}
           /\ editsLeft > 0 /\ opsLeft > 0
           /\ Rendered[k].from = Me
           /\ begun.editing # {}
           /\ store' = begun.messages
           /\ editTask' = begun.editing
           /\ editsLeft' = editsLeft - 1
           /\ opsLeft' = opsLeft - 1
           /\ lastOp' = Other
           /\ UNCHANGED harnessVars
           /\ UNCHANGED <<now, peerId, sending, lastSend, lastBot, 
                          sendTask, timeouts, botTimers, botTasks, toasts,
                          nextId, nextIv, replaced, sendsLeft, deletesLeft>>

\* finish(commit) up to its await; raw: the text left in the bubble
EditEnd(commit, raw) ==
    \E t \in editTask :
        LET newText == Trim(raw)
            go == commit /\ newText # <<>> /\ newText # t.original
        IN /\ t.phase = "editing"
           /\ editTask' = IF go
                          THEN {[t EXCEPT !.phase = "encrypting",
                                          !.newText = newText]}
                          ELSE {}
           /\ lastOp' = IF commit
                         THEN Op("edit", IF go THEN "commit" ELSE "noop",
                                 t.id, raw, <<>>)
                         ELSE Other
           /\ UNCHANGED harnessVars
           /\ UNCHANGED <<now, store, peerId, sending, lastSend, lastBot,
                          sendTask, timeouts, botTimers, botTasks, toasts,
                          nextId, nextIv, replaced, sendsLeft, editsLeft,
                          deletesLeft, opsLeft>>

\* finish(true) after the await: m.cipher, m.editedAt, saveData(data)
EditFinish ==
    \E t \in editTask :
        LET i == FindIdx(t.data, t.id)
            m == SetField(SetField(t.data[i], "cipher",
                            encryptMessage(t.convId, t.newText, nextIv)),
                          "editedAt", now)
        IN /\ t.phase = "encrypting"
           /\ store' = Persist(ReplaceAt(t.data, i, m))
           /\ editTask' = {}
           /\ nextIv' = nextIv + 1
           /\ lastOp' = Other
           /\ UNCHANGED harnessVars
           /\ UNCHANGED <<now, peerId, sending, lastSend, lastBot, 
                          sendTask, timeouts, botTimers, botTasks, toasts,
                          nextId, replaced, sendsLeft, editsLeft, deletesLeft, opsLeft>>

(***************************************************************************)
(* Delete and undo                                                         *)
(***************************************************************************)
\* onDeleteMessage: what it leaves in storage and the toast it shows (none
\* if the id is not stored); pre is the message as it was, kept for the
\* claims about undo
onDeleteMessage(messages, id, ts) ==
    LET data == LoadData(messages)
        i == FindIdx(data, id)
    IN IF i = 0 THEN [messages |-> data, toasts |-> {}]
       ELSE LET m == SetField(data[i], "deleted", TRUE) IN
            [messages |-> Persist(ReplaceAt(data, i, m)),
             toasts |-> {[id |-> id, snapshot |-> m, pre |-> data[i],
                          shownAt |-> ts, removed |-> FALSE]}]

\* the delete button of a bubble
OnDeleteMessage ==
    \E k \in 1..Len(Rendered) :
        LET id == Rendered[k].id
            done == onDeleteMessage(store, id, now)
        IN /\ deletesLeft > 0 /\ opsLeft > 0
           /\ done.toasts # {}
           /\ store' = done.messages
           /\ toasts' = toasts \cup done.toasts
           /\ deletesLeft' = deletesLeft - 1
           /\ opsLeft' = opsLeft - 1
           /\ lastOp' = Other
           /\ UNCHANGED harnessVars
           /\ UNCHANGED <<now, peerId, sending, lastSend, lastBot, 
                          sendTask, timeouts, botTimers, botTasks, editTask,
                          nextId, nextIv, replaced, sendsLeft, editsLeft>>

RestoreFlagOnly(mm, snapshot) == SetField(mm, "deleted", FALSE)

\* Object.assign(mm, snapshot, { deleted: false })
Restore(mm, snapshot) ==
    ObjectAssign(ObjectAssign(mm, snapshot), [deleted |-> FALSE])

\* remove() of a toast
Removed(t) ==
    [t EXCEPT !.removed = TRUE]

\* the undo callback of onDeleteMessage: what it leaves in storage
onUndo(messages, id, snapshot) ==
    LET d2 == LoadData(messages)
        i == FindIdx(d2, id)
    IN IF i = 0 THEN d2
       ELSE Persist(ReplaceAt(d2, i, Restore(d2[i], snapshot)))

\* the Undo button of a toast, clickable until the toast leaves the page
ToastUndo ==
    \E t \in toasts :
        LET i == FindIdx(LoadData(store), t.id)
        IN /\ store' = onUndo(store, t.id, t.snapshot)
           /\ toasts' = (toasts \ {t}) \cup {Removed(t)}
           /\ lastOp' = Op("undo",
                           IF i = 0 THEN "absent"
                           ELSE IF t.removed THEN "late" ELSE "ok",
                           t.id, <<>>, t.pre)
           /\ UNCHANGED harnessVars
           /\ UNCHANGED <<now, peerId, sending, lastSend, lastBot, 
                          sendTask, timeouts, botTimers, botTasks, editTask,
                          nextId, nextIv, replaced, sendsLeft, editsLeft, deletesLeft, opsLeft>>

\* tick(): the 6000 ms of the toast have run out
ToastExpire ==
    \E t \in toasts :
        /\ ~t.removed /\ now - t.shownAt >= UNDO_MS
        /\ toasts' = (toasts \ {t}) \cup {Removed(t)}
        /\ lastOp' = Other
        /\ UNCHANGED harnessVars
        /\ UNCHANGED <<now, store, peerId, sending, lastSend, lastBot, 
                       sendTask, timeouts, botTimers, botTasks, editTask,
                       nextId, nextIv, replaced, sendsLeft, editsLeft, deletesLeft, opsLeft>>

\* a click on the toast outside its button
ToastDismiss ==
    \E t \in toasts :
        /\ ~t.removed
        /\ toasts' = (toasts \ {t}) \cup {Removed(t)}
        /\ lastOp' = Other
        /\ UNCHANGED harnessVars
        /\ UNCHANGED <<now, store, peerId, sending, lastSend, lastBot, 
                       sendTask, timeouts, botTimers, botTasks, editTask,
                       nextId, nextIv, replaced, sendsLeft, editsLeft, deletesLeft, opsLeft>>

\* setTimeout(() => t.remove(), 220)
ToastGone ==
    \E t \in toasts :
        /\ t.removed
        /\ toasts' = toasts \ {t}
        /\ lastOp' = Other
        /\ UNCHANGED harnessVars
        /\ UNCHANGED <<now, store, peerId, sending, lastSend, lastBot, 
                       sendTask, timeouts, botTimers, botTasks, editTask,
                       nextId, nextIv, replaced, sendsLeft, editsLeft, deletesLeft, opsLeft>>

Next ==
    \/ Advance
    \/ \E text \in InputTexts : SendMessage(text)
    \/ SendFinish
    \/ FireDeliver
    \/ MarkAllSeenIfAtBottom
    \/ \E p \in CONTACTS : SwitchConversation(p)
    \/ CloseChat
    \/ FireBot
    \/ BotFinish
    \/ EditBegin
    \/ \E commit \in BOOLEAN, raw \in EditTexts : EditEnd(commit, raw)
    \/ EditFinish
    \/ OnDeleteMessage
    \/ ToastUndo
    \/ ToastExpire
    \/ ToastDismiss
    \/ ToastGone

Spec == Init /\ [][Next]_vars

\* Runs in which the user stays with the first contact, commits what is typed
\* into an edited bubble and deletes nothing.
NextReply ==
    \/ Advance
    \/ \E text \in InputTexts : SendMessage(text)
    \/ SendFinish
    \/ FireDeliver
    \/ SwitchConversation("u-1")
    \/ FireBot
    \/ BotFinish
    \/ EditBegin
    \/ EditEnd(TRUE, <<"y", "o">>)
    \/ EditFinish

InitReply == AppStart /\ HarnessIdle /\ Budget(ReplySends, ReplyEdits, 0, ReplyOps)

SpecReply == InitReply /\ [][NextReply]_vars

\* What the event loop owes: a timeout that is due is run, a continuation
\* whose await has settled is resumed.  Each is named by what the step takes
\* off the pending set, so that its enabling does not depend on what the
\* callback goes on to store.
TimeoutRuns ==
    \E t \in timeouts : Due(t) /\ timeouts' = timeouts \ {t}

SendResumes == sendTask # {} /\ sendTask' = {}

ReplyResumes == \E t \in botTasks : botTasks' = botTasks \ {t}

EditResumes ==
    \E t \in editTask : t.phase = "encrypting" /\ editTask' = {}

\* time passes until a pending timeout is due
WaitForTimeout ==
    \E t \in timeouts :
        /\ t.due > now
        /\ now' = t.due
        /\ lastOp' = Other
        /\ UNCHANGED harnessVars
        /\ UNCHANGED <<store, peerId, sending, lastSend, lastBot, sendTask,
                       timeouts, botTimers, botTasks, editTask, toasts, nextId,
                       nextIv, replaced, sendsLeft, editsLeft, deletesLeft,
                       opsLeft>>

\* sending, replying and editing with the clock moving from due time to due
\* time
NextReplyFair ==
    \/ WaitForTimeout
    \/ \E text \in InputTexts : SendMessage(text)
    \/ SendFinish
    \/ FireDeliver
    \/ SwitchConversation("u-1")
    \/ FireBot
    \/ BotFinish
    \/ EditBegin
    \/ EditEnd(TRUE, <<"y", "o">>)
    \/ EditFinish

\* the same with the clock reaching every due time and the event loop
\* running every timeout that is due and every continuation that can resume
SpecReplyFair ==
    /\ InitReply /\ [][NextReplyFair]_vars
    /\ WF_now(WaitForTimeout)
    /\ WF_sendTask(SendResumes)
    /\ WF_timeouts(TimeoutRuns)
    /\ WF_botTasks(ReplyResumes)
    /\ WF_editTask(EditResumes)

\* what the composer may hold when Send is clicked
ClickTexts == {<<"H", "i">>, <<" ", "o", "k">>, <<" ">>, <<>>}

\* sending only, with clicks on a composer that may hold blanks
NextSend ==
    \/ Advance
    \/ \E raw \in ClickTexts : onSendClick(raw)
    \/ SendFinish
    \/ FireDeliver
    \/ \E p \in CONTACTS : SwitchConversation(p)
    \/ FireBot
    \/ BotFinish

InitSend == AppStart /\ HarnessIdle /\ Budget(ClickSends, 0, 0, ClickSends)

SpecSend == InitSend /\ [][NextSend]_vars

\* sending in two conversations in turn
DupSends == 3       \* accepted sends per run of SpecDup

NextDup ==
    \/ Advance
    \/ \E text \in InputTexts : SendMessage(text)
    \/ SendFinish
    \/ FireDeliver
    \/ \E p \in CONTACTS : SwitchConversation(p)
    \/ FireBot
    \/ BotFinish

InitDup == AppStart /\ HarnessIdle /\ Budget(DupSends, 0, 0, DupSends)

SpecDup == InitDup /\ [][NextDup]_vars

\* the await of a send is rejected (crypto.subtle.encrypt fails): the finally
\* block of sendMessage runs, nothing is pushed and no timer is armed
SendThrows ==
    \E t \in sendTask :
        /\ sending' = FALSE
        /\ sendTask' = {}
        /\ lastOp' = Op("send", "threw", 0, t.text, <<>>)
        /\ UNCHANGED harnessVars
        /\ UNCHANGED <<now, store, peerId, lastSend, lastBot, timeouts,
                       botTimers, botTasks, editTask, toasts, nextId, nextIv,
                       replaced, sendsLeft, editsLeft, deletesLeft, opsLeft>>

\* sending while a send is under way, with encryption that may fail
FlightSends == 2    \* accepted sends per run of SpecFlight

NextFlight ==
    \/ Advance
    \/ \E text \in InputTexts : SendMessage(text)
    \/ SendFinish
    \/ SendThrows
    \/ FireDeliver
    \/ \E p \in CONTACTS : SwitchConversation(p)
    \/ CloseChat
    \/ FireBot
    \/ BotFinish

InitFlight == AppStart /\ HarnessIdle /\ Budget(FlightSends, 0, 0, FlightSends)

\* the await of a send settles: the continuation of sendMessage runs to its
\* end, by its try block or by its finally block alone
SpecFlight == InitFlight /\ [][NextFlight]_vars /\ WF_sendTask(SendResumes)

SpecCompact == InitCompact /\ [][NextCompact]_vars

(***************************************************************************)
(* View harness: getVisibleMessages on stored arrays longer than a page    *)
(***************************************************************************)
ViewMaxLen == 45    \* longest stored array handed to the view harness
ViewMaxPage == 2    \* largest state.pageIndex handed to the view harness

\* the read markers markAllSeenIfAtBottom may have stored: Date.now() of an
\* earlier visit
ViewMarkers == {0, 20500, 40000}

\* which messages of the array are tombstoned, or carry deleted: false
ViewShapes == {"none", "fourth", "restored"}

\* message i of what loadData() returns (ascending createdAt, distinct ids
\* and fingerprints): every fifteenth is of the second contact, every third
\* is mine
ViewMessage(i, shape) ==
    LET peer == IF i % 15 = 0 THEN "u-2" ELSE "u-1"
        m == [id |-> i, convId |-> getConversationId(peer),
              from |-> IF i % 3 = 0 THEN Me ELSE peer,
              to |-> IF i % 3 = 0 THEN peer ELSE Me,
              cipher |-> encryptMessage(getConversationId(peer), <<"m">>, i),
              createdAt |-> i * 1000, status |-> "delivered"]
    IN IF shape = "fourth" /\ i % 4 = 0 THEN SetField(m, "deleted", TRUE)
       ELSE IF shape = "restored" /\ i % 4 = 1 THEN SetField(m, "deleted", FALSE)
       ELSE m

InitView ==
    /\ AppStart /\ Budget(0, 0, 0, 0)
    /\ cIn \in [messages : {[i \in 1..n |-> ViewMessage(i, shape)] :
                                n \in 0..ViewMaxLen, shape \in ViewShapes},
                peerId : CONTACTS \cup {NoPeer},
                pageIndex : 0..ViewMaxPage,
                lastRead : {<<>>} \cup {<<ts>> : ts \in ViewMarkers}]
    /\ cOut = <<>>
    /\ cPc = "in"

\* getVisibleMessages() with state.peerId and state.pageIndex as given, on
\* the array loadData() returned
HarnessView ==
    /\ cPc = "in"
    /\ cOut' = getVisibleMessages(cIn.messages, cIn.peerId, cIn.pageIndex)
    /\ cPc' = "viewed"
    /\ UNCHANGED <<cIn, appVars>>

\* setupUnreadJump() with state.peerId and state.pageIndex as given and the
\* read marker as markAllSeenIfAtBottom stored it, String(Date.now())
HarnessUnread ==
    /\ cPc = "in"
    /\ cOut' = setupUnreadJump(cIn.messages, cIn.peerId, cIn.pageIndex,
                               IF cIn.lastRead = <<>> THEN Null
                               ELSE DecimalString(cIn.lastRead[1]))
    /\ cPc' = "unread"
    /\ UNCHANGED <<cIn, appVars>>

\* a scroll event with the list at its top
HarnessScroll ==
    /\ cPc = "in"
    /\ cOut' = [pageIndex |-> onScrollTop(cIn.messages, cIn.peerId,
                                          cIn.pageIndex)]
    /\ cPc' = "scrolled"
    /\ UNCHANGED <<cIn, appVars>>

NextView == HarnessView \/ HarnessUnread \/ HarnessScroll

SpecView == InitView /\ [][NextView]_vars

(***************************************************************************)
(* Read harness: markAllSeenIfAtBottom on one stored array                 *)
(***************************************************************************)
SeenMaxLen == 3         \* longest stored array handed to the read harness
SeenNow == 10000        \* Date.now() when the handler starts
SeenBefore == 500       \* seenAt of a message seen earlier

SeenKinds == {"peer-delivered", "peer-seen", "mine", "peer-deleted", "other"}

\* message i of a stored array, created at second i
SeenMessage(i, kind) ==
    LET peer == IF kind = "other" THEN "u-2" ELSE "u-1"
        m == [id |-> i, convId |-> getConversationId(peer),
              from |-> IF kind = "mine" THEN Me ELSE peer,
              to |-> IF kind = "mine" THEN peer ELSE Me,
              cipher |-> encryptMessage(getConversationId(peer), <<"m">>, i),
              createdAt |-> i * 1000,
              status |-> IF kind = "peer-seen" THEN "seen" ELSE "delivered"]
    IN IF kind = "peer-deleted" THEN SetField(m, "deleted", TRUE)
       ELSE IF kind = "peer-seen" THEN SetField(m, "seenAt", i * 1000 + SeenBefore)
       ELSE m

\* the values the Date.now() calls of one run of the handler return: the clock
\* never goes back and may pass a millisecond boundary between two calls
ClockReads(n) ==
    {r \in [1..n -> {SeenNow, SeenNow + 1}] :
        \A i \in 1..n, j \in 1..n : i <= j => r[i] <= r[j]}

InitSeen ==
    /\ AppStart /\ Budget(0, 0, 0, 0)
    /\ \E n \in 0..SeenMaxLen :
         cIn \in [messages : {[i \in 1..n |-> SeenMessage(i, kinds[i])] :
                                  kinds \in [1..n -> SeenKinds]},
                  peerId : {"u-1", NoPeer},
                  nearBottom : BOOLEAN,
                  lastRead : {0},
                  reads : ClockReads(n + 1)]
    /\ cOut = <<>>
    /\ cPc = "in"

HarnessMarkSeen ==
    /\ cPc = "in"
    /\ cOut' = markAllSeenIfAtBottom(cIn.messages, cIn.peerId, cIn.nearBottom,
                                     cIn.lastRead, cIn.reads)
    /\ cPc' = "marked"
    /\ UNCHANGED <<cIn, appVars>>

NextSeen == HarnessMarkSeen

SpecSeen == InitSeen /\ [][NextSeen]_vars

(***************************************************************************)
(* By-id harness: the four mutations by id on one stored array, with ids   *)
(* that are stored and ids that are not                                    *)
(***************************************************************************)
ByIdMaxLen == 2     \* longest stored array handed to the by-id harness

ByIdKinds == {"mine", "peer-delivered", "peer-seen", "peer-deleted"}

InitById ==
    /\ AppStart /\ Budget(0, 0, 0, 0)
    /\ \E n \in 0..ByIdMaxLen :
         cIn \in [messages : {[i \in 1..n |-> SeenMessage(i, kinds[i])] :
                                  kinds \in [1..n -> ByIdKinds]},
                  id : 1..(ByIdMaxLen + 1),
                  status : {"delivered", "seen"}]
    /\ cOut = <<>>
    /\ cPc = "in"

\* updateStatus(cIn.id, cIn.status)
HarnessStatus ==
    /\ cPc = "in"
    /\ cOut' = [messages |-> UpdateStatus(cIn.messages, cIn.id, cIn.status,
                                          SeenNow),
                toasts |-> {}, editing |-> {}]
    /\ cPc' = "status"
    /\ UNCHANGED <<cIn, appVars>>

\* the edit button of a bubble whose data-id is cIn.id
HarnessEdit ==
    /\ cPc = "in"
    /\ cOut' = LET r == onEditMessage(cIn.messages, "u-1", cIn.id) IN
               [messages |-> r.messages, toasts |-> {}, editing |-> r.editing]
    /\ cPc' = "edit"
    /\ UNCHANGED <<cIn, appVars>>

\* the delete button of a bubble whose data-id is cIn.id
HarnessDelete ==
    /\ cPc = "in"
    /\ cOut' = LET r == onDeleteMessage(cIn.messages, cIn.id, SeenNow) IN
               [messages |-> r.messages, toasts |-> r.toasts, editing |-> {}]
    /\ cPc' = "delete"
    /\ UNCHANGED <<cIn, appVars>>

\* the undo callback of a delete of cIn.id made earlier
HarnessUndo ==
    /\ cPc = "in"
    /\ cOut' = [messages |-> onUndo(cIn.messages, cIn.id,
                                    SetField(SeenMessage(cIn.id, "mine"),
                                             "deleted", TRUE)),
                toasts |-> {}, editing |-> {}]
    /\ cPc' = "undo"
    /\ UNCHANGED <<cIn, appVars>>

NextById == HarnessStatus \/ HarnessEdit \/ HarnessDelete \/ HarnessUndo

SpecById == InitById /\ [][NextById]_vars

(***************************************************************************)
(* Load harness: loadData on what localStorage may hold under STORAGE_KEY  *)
(***************************************************************************)
LoadMaxLen == 2     \* longest messages array in a stored snapshot

\* getItem returned null or "": nothing stored
RawAbsent == [kind |-> "absent"]

\* a stored string that is not JSON
RawUnparseable == [kind |-> "unparseable"]

\* a stored string that parses to the value v
RawJson(v) == [kind |-> "json", value |-> v]

JsonArray(items) == [type |-> "array", items |-> items]

\* what a stored string may parse to: null, a number, a string, or an object
\* whose messages field is missing, a string, or an array
JsonValues ==
    {[type |-> "null"], [type |-> "number"], [type |-> "string"]}
    \cup {[type |-> "object", messages |-> f] :
            f \in {[type |-> "undefined"], [type |-> "string"]}
                  \cup {JsonArray(q) : q \in SeqsUpTo(HarnessPool, LoadMaxLen)}}

RawSnapshots == {RawAbsent, RawUnparseable} \cup {RawJson(v) : v \in JsonValues}

\* { conversations: CONTACTS.map(...), messages: [] }
FreshData ==
    [type |-> "object",
     conversations |-> {[id |-> getConversationId(c), peerId |-> c] : c \in CONTACTS},
     messages |-> JsonArray(<<>>)]

NoData == [type |-> "none"]

\* loadData(): whether it threw, what it returned, what it left in storage.
\* JSON.parse throws on a string that is not JSON; reading data.messages
\* throws when the string parsed to null; on a number or a string the
\* assignment data.messages = [] has no effect and the value is returned
loadData(raw) ==
    IF raw.kind = "absent"
    THEN [threw |-> FALSE, data |-> FreshData, stored |-> RawJson(FreshData)]
    ELSE IF raw.kind = "unparseable"
    THEN [threw |-> TRUE, data |-> NoData, stored |-> raw]
    ELSE LET v == raw.value IN
         IF v.type = "null"
         THEN [threw |-> TRUE, data |-> NoData, stored |-> raw]
         ELSE IF v.type # "object"
         THEN [threw |-> FALSE, data |-> v, stored |-> raw]
         ELSE LET data == [v EXCEPT !.messages =
                             IF v.messages.type = "array"
                             THEN JsonArray(LoadData(v.messages.items))
                             ELSE JsonArray(<<>>)]
              IN [threw |-> FALSE, data |-> data, stored |-> RawJson(data)]

InitLoad ==
    /\ AppStart /\ Budget(0, 0, 0, 0)
    /\ cIn \in RawSnapshots
    /\ cOut = <<>>
    /\ cPc = "in"

HarnessLoadData ==
    /\ cPc = "in"
    /\ cOut' = loadData(cIn)
    /\ cPc' = "loaded"
    /\ UNCHANGED <<cIn, appVars>>

NextLoad == HarnessLoadData

SpecLoad == InitLoad /\ [][NextLoad]_vars

(***************************************************************************)
(* Cipher harness: encrypt a text, hand the payload over as it is or       *)
(* damaged, decrypt it under the same or another conversation              *)
(***************************************************************************)
CipherMaxLen == 2   \* longest text handed to the cipher harness

CipherChars == {"a", BOM, LoneSurrogate}

Tampers == {"drop-tag", "drop-block", "flip", "other-iv", "empty-iv",
            "no-iv", "no-data", "no-cipher"}

\* the payload after the damage named by kind
Tamper(cipher, kind) ==
    LET data == cipher.data IN
    CASE kind = "drop-tag" -> [cipher EXCEPT !.data = SubSeq(data, 1, Len(data) - 1)]
      [] kind = "drop-block" -> [cipher EXCEPT !.data = Tail(data)]
      [] kind = "flip" ->
            [cipher EXCEPT !.data =
                [data EXCEPT ![1] = <<data[1][1], data[1][2], data[1][3], <<"x">> >>]]
      [] kind = "other-iv" -> [cipher EXCEPT !.iv = <<cipher.iv[1] + 1>>]
      [] kind = "empty-iv" -> [cipher EXCEPT !.iv = <<>>]
      [] kind = "no-iv" -> [data |-> data]
      [] kind = "no-data" -> [iv |-> cipher.iv]
      [] kind = "no-cipher" -> <<>>

InitCipher ==
    /\ AppStart /\ Budget(0, 0, 0, 0)
    /\ cIn \in [conv : Convs, text : SeqsUpTo(CipherChars, CipherMaxLen),
                iv : {1}]
    /\ cOut = <<>>
    /\ cPc = "in"

\* encryptMessage(cIn.conv, cIn.text)
HarnessEncrypt ==
    /\ cPc = "in"
    /\ cOut' = [cipher |-> encryptMessage(cIn.conv, cIn.text, cIn.iv)]
    /\ cPc' = "encrypted"
    /\ UNCHANGED <<cIn, appVars>>

\* the stored payload is damaged
HarnessTamper(kind) ==
    /\ cPc = "encrypted"
    /\ cOut' = [cipher |-> Tamper(cOut.cipher, kind)]
    /\ cPc' = "tampered"
    /\ UNCHANGED <<cIn, appVars>>

\* decryptMessage(conv, payload)
HarnessDecrypt(conv) ==
    /\ cPc \in {"encrypted", "tampered"}
    /\ cOut' = [cipher |-> cOut.cipher, conv |-> conv,
                text |-> decryptMessage(conv, cOut.cipher)]
    /\ cPc' = "decrypted"
    /\ UNCHANGED <<cIn, appVars>>

NextCipher ==
    \/ HarnessEncrypt
    \/ \E kind \in Tampers : HarnessTamper(kind)
    \/ \E conv \in Convs : HarnessDecrypt(conv)

SpecCipher == InitCipher /\ [][NextCipher]_vars

(***************************************************************************)
(* Typing harness: the input handler of the composer and its 800 ms timer. *)
(* cOut holds the clock, the peer-typing badge, the browser's table of     *)
(* pending timeouts, state.typingTimer and the time of the last keystroke. *)
(***************************************************************************)
TYPING_MS == 800
TypingTick == 400       \* the clock moves in steps of 400 ms
TypingMaxTime == 2400   \* the clock stops here
TypingMaxKeys == 4      \* keystrokes per run

\* the input handler without its clearTimeout
onInputKeepTimer(s) ==
    [s EXCEPT !.peerTyping = TRUE,
              !.timers = s.timers \cup {[tid |-> s.nextTid,
                                         due |-> s.now + TYPING_MS]},
              !.typingTimer = s.nextTid,
              !.nextTid = s.nextTid + 1,
              !.lastInput = s.now,
              !.keys = s.keys + 1]

\* the input handler: showPeerTyping(true), clearTimeout(state.typingTimer),
\* state.typingTimer = setTimeout(() => showPeerTyping(false), 800)
onInput(s) ==
    [s EXCEPT !.peerTyping = TRUE,
              !.timers = {t \in s.timers : t.tid # s.typingTimer}
                         \cup {[tid |-> s.nextTid, due |-> s.now + TYPING_MS]},
              !.typingTimer = s.nextTid,
              !.nextTid = s.nextTid + 1,
              !.lastInput = s.now,
              !.keys = s.keys + 1]

\* the callback of the timer: showPeerTyping(false)
typingTimeout(s, t) ==
    [s EXCEPT !.peerTyping = FALSE, !.timers = s.timers \ {t}]

InitTyping ==
    /\ AppStart /\ Budget(0, 0, 0, 0)
    /\ cIn = <<>>
    /\ cOut = [now |-> 0, peerTyping |-> FALSE, timers |-> {},
               typingTimer |-> 0, nextTid |-> 1, lastInput |-> 0, keys |-> 0]
    /\ cPc = "start"

\* a keystroke in the composer
HarnessInput ==
    /\ cOut.keys < TypingMaxKeys
    /\ cOut' = onInput(cOut)
    /\ cPc' = "input"
    /\ UNCHANGED <<cIn, appVars>>

\* a pending timeout whose time has come runs
HarnessTypingTimeout ==
    \E t \in cOut.timers :
        /\ cOut.now >= t.due
        /\ cOut' = typingTimeout(cOut, t)
        /\ cPc' = "timeout"
        /\ UNCHANGED <<cIn, appVars>>

\* time passes; a timeout may run late
HarnessTypingTick ==
    /\ cOut.now < TypingMaxTime
    /\ cOut' = [cOut EXCEPT !.now = cOut.now + TypingTick]
    /\ cPc' = "tick"
    /\ UNCHANGED <<cIn, appVars>>

NextTyping == HarnessInput \/ HarnessTypingTimeout \/ HarnessTypingTick

SpecTyping == InitTyping /\ [][NextTyping]_vars

(***************************************************************************)
(* Composer drafts: the input handler, onSendClick around its await,       *)
(* switchConversation and the close button, on the composer text and the   *)
(* draft entries of localStorage.                                          *)
(***************************************************************************)
\* what a keystroke may leave in the composer
DraftTexts == InputTexts \cup {<<" ">>}

\* the localStorage keys `${DRAFT_KEY}:${convId}`; a closed chat reads as
\* "conv-null"
DraftKeys == {getConversationId(c) : c \in CONTACTS \cup {NoPeer}}

\* localStorage.getItem(key) || ""
draftOrEmpty(drafts, key) ==
    IF drafts[key] = <<>> THEN <<>> ELSE drafts[key][1]

\* the input listener: the draft of the open conversation takes the
\* composer's value
onDraftInput(s, v) ==
    [s EXCEPT !.input = v,
              !.drafts[getConversationId(s.peerId)] = <<v>>]

\* onSendClick up to its await: sendMessage takes the trimmed text of the
\* open conversation
onSendClickBegin(s) ==
    [s EXCEPT !.task = {[convId |-> getConversationId(s.peerId)]}]

\* onSendClick after its await: the composer is emptied and the draft of
\* the conversation open by then is removed
onSendClickResume(s) ==
    [s EXCEPT !.input = <<>>,
              !.drafts[getConversationId(s.peerId)] = <<>>,
              !.task = {},
              !.done = s.task]

\* switchConversation: the composer takes the stored draft of the contact
switchDraft(s, p) ==
    [s EXCEPT !.peerId = p,
              !.input = draftOrEmpty(s.drafts, getConversationId(p))]

\* the close button: no chat is open and the composer is emptied
closeDraft(s) == [s EXCEPT !.peerId = NoPeer, !.input = <<>>]

InitDraft ==
    /\ AppStart /\ Budget(0, 0, 0, 0)
    /\ cIn = <<>>
    /\ cOut = [peerId |-> NoPeer, input |-> <<>>,
               drafts |-> [k \in DraftKeys |-> <<>>],
               task |-> {}, done |-> {}]
    /\ cPc = "start"

\* a keystroke in the composer of the open chat
HarnessDraftInput ==
    \E v \in DraftTexts :
        /\ cOut.peerId # NoPeer
        /\ cOut' = onDraftInput(cOut, v)
        /\ cPc' = "input"
        /\ UNCHANGED <<cIn, appVars>>

\* a click on Send that sendMessage accepts and suspends on encryption
HarnessSendClick ==
    /\ cOut.peerId # NoPeer
    /\ cOut.task = {}
    /\ Trim(cOut.input) # <<>>
    /\ cOut' = onSendClickBegin(cOut)
    /\ cPc' = "click"
    /\ UNCHANGED <<cIn, appVars>>

\* sendMessage has settled and onSendClick goes on
HarnessSendResume ==
    /\ cOut.task # {}
    /\ cOut' = onSendClickResume(cOut)
    /\ cPc' = "sent"
    /\ UNCHANGED <<cIn, appVars>>

HarnessDraftSwitch ==
    \E p \in CONTACTS :
        /\ cOut' = switchDraft(cOut, p)
        /\ cPc' = "switch"
        /\ UNCHANGED <<cIn, appVars>>

HarnessDraftClose ==
    /\ cOut.peerId # NoPeer
    /\ cOut' = closeDraft(cOut)
    /\ cPc' = "close"
    /\ UNCHANGED <<cIn, appVars>>

NextDraft ==
    \/ HarnessDraftInput
    \/ HarnessSendClick
    \/ HarnessSendResume
    \/ HarnessDraftSwitch
    \/ HarnessDraftClose

SpecDraft == InitDraft /\ [][NextDraft]_vars

(***************************************************************************)
(* Claims about the running application                                    *)
(***************************************************************************)
\* a message of the array that shares neither its id nor its fingerprint
Single(messages, i) ==
    \A j \in 1..Len(messages) :
        j # i => /\ messages[j].id # messages[i].id
                 /\ Fingerprint(messages[j]) # Fingerprint(messages[i])

\* C1: no step stores for a message a status earlier in sent < delivered < seen
\* than the status storage held for it just before the step.
C1_StatusNeverRegresses ==
    [][\A i \in 1..Len(store), j \in 1..Len(store') :
          store'[j].id = store[i].id =>
              StatusRank(store'[j].status) >= StatusRank(store[i].status)]_vars

\* C2: a message that is in storage, with an id and a fingerprint of its own,
\* is still in storage (tombstoned or not) after every step.
C2_NoMessageLost ==
    [][\A i \in 1..Len(store) :
          Single(store, i) => store[i].id \in Ids(store')]_vars

\* C3: a sendMessage with the text and the conversation of the last accepted
\* send, less than 600 ms after it, is dropped: it appends nothing, starts no
\* encryption and arms no delivered or reply timer.
C3_DuplicateSendDropped ==
    [][(/\ lastSend # <<>>
        /\ peerId # NoPeer
        /\ getConversationId(peerId) = lastSend[1].convId
        /\ now - lastSend[1].ts < DUP_WINDOW_MS
        /\ SendMessage(lastSend[1].text))
       => UNCHANGED <<store, sendTask, sending, timeouts, botTimers, lastSend,
                      lastBot, nextId>>]_vars

\* the first send has been stored, time has passed inside the window, and
\* the second click with the same text in the same chat was dropped
C3_Witness ==
    /\ lastOp.op = "send" /\ lastOp.res = "dup"
    /\ ~sending
    /\ now > lastSend[1].ts
    /\ Cardinality({i \in 1..Len(store) :
            /\ store[i].from = Me
            /\ store[i].convId = lastSend[1].convId
            /\ store[i].createdAt = lastSend[1].ts}) = 1

BotTimeouts(c) == {t \in timeouts : t.kind = "bot" /\ t.convId = c}

\* C4: every conversation has at most one pending reply timer, and a pending
\* reply timer leaves only by firing or by a new one of its own conversation
\* being armed in its place.
C4_SingleFlightReply ==
    /\ [](\A c \in Convs : Cardinality(BotTimeouts(c)) <= 1)
    /\ [][\A t \in timeouts :
            (t.kind = "bot" /\ t \notin timeouts') =>
                \/ \E b \in botTasks' \ botTasks : b.tid = t.tid
                \/ \E u \in BotTimeouts(t.convId)' : u.tid # t.tid]_vars

\* a second reply was scheduled for a conversation while the first was pending
C4_Witness ==
    \E c \in Convs :
        /\ botTimers[c] # 0
        /\ \E t \in BotTimeouts(c) : t.supersedes /\ t.tid = botTimers[c]

\* C5: the reply appended by a timer that replaced a pending one of its
\* conversation stays in storage.
C5_ReplyRemains == \A id \in replaced : id \in Ids(store)

(***************************************************************************)
(* Claims about compaction (checked under SpecCompact)                     *)
(***************************************************************************)
Range(q) == {q[i] : i \in 1..Len(q)}

\* C6: compaction is idempotent: the array loadData compacts again after
\* saveData has compacted it is the array saveData wrote, element for element.
C6_Idempotent == cPc = "loaded" => cOut = Compact(cIn)

\* a run where the first pass merged and reordered and the second ran on its result
C6_Witness ==
    /\ cPc = "loaded"
    /\ Len(cIn) = 3
    /\ Len(cOut) = 2
    /\ cOut[1] = cIn[3]

\* C37: a load performed on a store last written by save returns exactly
\* the message sequence that save wrote and leaves the persisted snapshot
\* unchanged: the compaction that load writes back is the identity on saved
\* data, so a read never alters or drops a persisted message.
C37_LoadKeepsSaved ==
    /\ cPc = "saved" => LoadData(cOut) = cOut
    /\ cPc = "loaded" => cOut = SaveData(cIn)

\* a load after a save that kept three messages, two of them half a bucket
\* apart with the same nonce and the same ciphertext prefix, and put them in
\* another order than they were given
C37_Witness ==
    /\ cPc = "loaded"
    /\ Len(cIn) = 3 /\ Len(cOut) = 3
    /\ cOut # cIn
    /\ \E i, j \in 1..3 :
          /\ Has(cOut[i], "createdAt") /\ Has(cOut[j], "createdAt")
          /\ cOut[i].createdAt = 0 /\ cOut[j].createdAt = BUCKET_MS \div 2
          /\ IvStr(cOut[i]) = IvStr(cOut[j])
          /\ DataStr(cOut[i]) = DataStr(cOut[j])

\* C7: after a save, and after a load, storage holds at most one message per id.
C7_UniqueIds ==
    cPc \in {"saved", "loaded"} =>
        /\ \A i \in 1..Len(cOut) : Has(cOut[i], "id")
        /\ \A i, j \in 1..Len(cOut) : i # j => cOut[i].id # cOut[j].id

\* a save of an array that repeats an id in entries of different fingerprints
C7_Witness ==
    /\ cPc = "saved"
    /\ Len(cIn) = 3
    /\ Has(cIn[1], "id") /\ Has(cIn[3], "id") /\ Has(cIn[1], "createdAt")
    /\ Has(cIn[3], "createdAt")
    /\ cIn[1].id = cIn[3].id
    /\ Fingerprint(cIn[1]) # Fingerprint(cIn[3])
    /\ Len(cOut) = 2

\* the inputs C8 speaks of: every entry has an id, a cipher and a createdAt,
\* and no id repeats
C8_Distinct ==
    /\ \A i \in 1..Len(cIn) :
          Has(cIn[i], "id") /\ Has(cIn[i], "cipher") /\ Has(cIn[i], "createdAt")
    /\ \A i, j \in 1..Len(cIn) : i # j => cIn[i].id # cIn[j].id

C8_SameParts(a, b) ==
    /\ a.convId = b.convId /\ a.from = b.from /\ a.to = b.to
    /\ a.cipher.iv = b.cipher.iv
    /\ SubSeq(a.cipher.data, 1, Min(PREFIX_LEN, Len(a.cipher.data)))
         = SubSeq(b.cipher.data, 1, Min(PREFIX_LEN, Len(b.cipher.data)))

C8_Floor(t) == t \div BUCKET_MS
C8_Round(t) == (2 * t + BUCKET_MS) \div (2 * BUCKET_MS)

\* the pair statement for a bucket function: of two entries with the same
\* parts and the same bucket exactly the later-created one (the later entry on
\* a tie) is kept; two entries in different buckets are both kept.  Entries
\* that a third one could merge with are left out.
C8_Pairs(B(_)) ==
    (cPc = "saved" /\ C8_Distinct) =>
        \A i, j \in 1..Len(cIn) :
            (i < j /\ C8_SameParts(cIn[i], cIn[j])
                   /\ \A k \in 1..Len(cIn) :
                        k \in {i, j} \/ ~C8_SameParts(cIn[k], cIn[i]))
            => IF B(cIn[i].createdAt) = B(cIn[j].createdAt)
               THEN LET win == IF cIn[i].createdAt > cIn[j].createdAt
                               THEN i ELSE j
                    IN /\ cIn[win] \in Range(cOut)
                       /\ cIn[i + j - win] \notin Range(cOut)
               ELSE cIn[i] \in Range(cOut) /\ cIn[j] \in Range(cOut)

\* C8 as claimed: the bucket is floor(createdAt / 200)
C8_FloorBucketCollapse == C8_Pairs(C8_Floor)

\* C8 as amended: the bucket is Math.round(createdAt / 200)
C8_RoundBucketCollapse == C8_Pairs(C8_Round)

\* two entries of one round bucket and different floor buckets were merged
C8_Witness ==
    /\ cPc = "saved" /\ C8_Distinct
    /\ Len(cIn) = 2
    /\ cIn[1].createdAt = BUCKET_MS
    /\ cIn[2].createdAt = BUCKET_MS \div 2
    /\ cOut = <<cIn[1]>>

\* C9: after a save the stored messages are in ascending createdAt order.
C9_Sorted ==
    cPc \in {"saved", "loaded"} =>
        \A i, j \in 1..Len(cOut) :
            i < j => CreatedAtOr0(cOut[i]) <= CreatedAtOr0(cOut[j])

\* a save of an array that was in descending order
C9_Witness ==
    /\ cPc = "saved"
    /\ Len(cIn) = 2
    /\ CreatedAtOr0(cIn[1]) > CreatedAtOr0(cIn[2])
    /\ cOut = <<cIn[2], cIn[1]>>

(***************************************************************************)
(* Claims about delete and undo                                            *)
(***************************************************************************)
\* the state right after the Undo button of a toast was clicked within its
\* 6000 ms and found the message in storage
UndoDone ==
    /\ lastOp.op = "undo" /\ lastOp.res = "ok"
    /\ \E t \in toasts :
          t.id = lastOp.id /\ t.removed /\ now - t.shownAt < UNDO_MS

\* C10 as stated: the object in storage after the undo is the object that was
\* there before the delete, property for property.
C10_UndoDeepEqual ==
    UndoDone => store[FindIdx(store, lastOp.id)] = lastOp.pre

\* C10 as amended: after the undo every property of the pre-delete object has
\* its pre-delete value again and deleted is present and false.
C10_UndoRestoresFields ==
    UndoDone =>
        LET m == store[FindIdx(store, lastOp.id)] IN
        /\ \A f \in DOMAIN lastOp.pre : Has(m, f) /\ m[f] = lastOp.pre[f]
        /\ Has(m, "deleted") /\ m.deleted = FALSE

\* the undo of the delete of a message of mine that had no deleted property
\* and was still sent when deleted, its delivered timer having fired since
C10_Witness ==
    /\ UndoDone
    /\ ~Has(lastOp.pre, "deleted")
    /\ lastOp.pre.status = "sent"
    /\ ~\E t \in timeouts : t.kind = "deliver" /\ t.id = lastOp.id

\* C11: a tombstone is cleared only while the undo toast of its delete is up
\* (neither expired nor dismissed); once the toast has been removed, the
\* message stays deleted whatever follows.
C11_TombstonePermanent ==
    [][\A i \in 1..Len(store), j \in 1..Len(store') :
          (/\ store'[j].id = store[i].id
           /\ IsDeleted(store[i])
           /\ ~IsDeleted(store'[j]))
          => \E t \in toasts : t.id = store[i].id /\ ~t.removed]_vars

\* read markers a conversation may have: none, or one set when the page started
ReadMarkers == {0, T0}

\* C12: a delete leaves the message in storage with deleted = true, and a
\* tombstoned message is in no visible slice, not counted in the total, not
\* unread and not the sidebar preview of its conversation.
C12_Tombstone ==
    /\ [](\A i \in 1..Len(store), p \in CONTACTS, k \in 0..1 :
            IsDeleted(store[i]) =>
                LET v == getVisibleMessages(store, p, k) IN
                /\ store[i] \notin Range(v.slice)
                /\ v.total = Cardinality({j \in 1..Len(store) :
                                 /\ store[j].convId = getConversationId(p)
                                 /\ ~IsDeleted(store[j])})
                /\ \A lr \in ReadMarkers : store[i] \notin Range(Unread(v.slice, lr))
                /\ SidebarLast(store, p) # <<store[i]>>)
    /\ [][\A t \in toasts' \ toasts :
            ~t.removed =>
                \E j \in 1..Len(store') :
                    /\ store'[j].id = t.id
                    /\ Has(store'[j], "deleted") /\ store'[j].deleted = TRUE]_vars

\* the newest message of the open conversation, a reply of the peer that
\* would be unread, has just been deleted
C12_Witness ==
    \E t \in toasts, i \in 1..Len(store) :
        /\ ~t.removed /\ store[i].id = t.id /\ IsDeleted(store[i])
        /\ peerId # NoPeer /\ store[i].convId = getConversationId(peerId)
        /\ store[i].from # Me /\ store[i].createdAt > T0
        /\ \A j \in 1..Len(store) :
              store[j].convId = store[i].convId => j <= i

(***************************************************************************)
(* Claims about the visible slice (checked under SpecView)                 *)
(***************************************************************************)
\* the places in the array of the non-tombstoned messages of a contact
LiveAt(messages, peer) ==
    {i \in 1..Len(messages) :
        messages[i].convId = getConversationId(peer) /\ ~IsDeleted(messages[i])}

\* C13: the slice of page k holds min(PAGE_SIZE * (k + 1), live) messages, they
\* are the newest live messages of the conversation in ascending order, and
\* total is the number of live messages.
C13_VisibleSlice ==
    (cPc = "viewed" /\ cIn.peerId # NoPeer) =>
        LET live == LiveAt(cIn.messages, cIn.peerId)
            len == Min(PAGE_SIZE * (cIn.pageIndex + 1), Cardinality(live))
        IN /\ cOut.total = Cardinality(live)
           /\ Len(cOut.slice) = len
           /\ \A j \in 1..len :
                \E i \in live :
                    /\ cOut.slice[j] = cIn.messages[i]
                    /\ Cardinality({h \in live : h > i}) = len - j
           /\ \A j \in 1..(len - 1) :
                cOut.slice[j].createdAt <= cOut.slice[j + 1].createdAt

\* the second page of a conversation that has tombstones and more live
\* messages than one page holds, but fewer than two
C13_Witness ==
    /\ cPc = "viewed" /\ cIn.peerId = "u-1" /\ cIn.pageIndex = 1
    /\ cOut.total > PAGE_SIZE /\ cOut.total < 2 * PAGE_SIZE
    /\ Len(cOut.slice) = cOut.total
    /\ \E i \in 1..Len(cIn.messages) : IsDeleted(cIn.messages[i])

(***************************************************************************)
(* Claims about marking a conversation read (checked under SpecSeen)       *)
(***************************************************************************)
\* the places of the unseen, non-tombstoned peer messages of the open
\* conversation in the array the handler was given
Unseen ==
    {i \in 1..Len(cIn.messages) :
        /\ cIn.messages[i].convId = getConversationId(cIn.peerId)
        /\ cIn.messages[i].from # Me
        /\ ~IsDeleted(cIn.messages[i])
        /\ cIn.messages[i].status # "seen"}

MarkedSeveral ==
    /\ cPc = "marked" /\ cIn.nearBottom /\ cIn.peerId # NoPeer
    /\ Cardinality(Unseen) >= 2

C14_AllSeen ==
    MarkedSeveral =>
        \A i \in Unseen : \E j \in 1..Len(cOut.messages) :
            /\ cOut.messages[j].id = cIn.messages[i].id
            /\ cOut.messages[j].status = "seen"
            /\ Has(cOut.messages[j], "seenAt")

C14_OneSeenAt ==
    MarkedSeveral =>
        \A j \in 1..Len(cOut.messages), k \in 1..Len(cOut.messages) :
            (/\ \E i \in Unseen : cIn.messages[i].id = cOut.messages[j].id
             /\ \E i \in Unseen : cIn.messages[i].id = cOut.messages[k].id
             /\ Has(cOut.messages[j], "seenAt") /\ Has(cOut.messages[k], "seenAt"))
            => cOut.messages[j].seenAt = cOut.messages[k].seenAt

C14_UnreadEmpty ==
    MarkedSeveral =>
        Unread(getVisibleMessages(cOut.messages, cIn.peerId, 0).slice,
               cOut.lastRead) = <<>>

\* C14: marking the open conversation near-bottom while it holds several
\* unseen, non-tombstoned peer messages turns all of them Seen with one shared
\* seenAt, and the unread set of the conversation is empty afterwards.
C14_MarkAllSeen == C14_AllSeen /\ C14_OneSeenAt /\ C14_UnreadEmpty

(***************************************************************************)
(* Claims about mutations by id (checked under SpecById)                   *)
(***************************************************************************)
AbsentId == \A i \in 1..Len(cIn.messages) : cIn.messages[i].id # cIn.id

\* C15: an edit, delete, undo or status update whose id is not stored leaves
\* the stored messages as they were, shows no toast and begins no edit.
C15_AbsentIdNoOp ==
    (cPc # "in" /\ AbsentId) =>
        /\ cOut.messages = cIn.messages
        /\ cOut.toasts = {}
        /\ cOut.editing = {}

\* a delete by an id that is not stored, on an array that holds a live message
C15_Witness ==
    /\ cPc = "delete" /\ AbsentId
    /\ \E i \in 1..Len(cIn.messages) : ~IsDeleted(cIn.messages[i])

(***************************************************************************)
(* Claims about loading (checked under SpecLoad)                           *)
(***************************************************************************)
\* a snapshot with a message sequence
ValidSnapshot(d) ==
    /\ d.type = "object"
    /\ d.messages.type = "array"

\* present, but unparseable, not an object, or with messages not a sequence
Malformed(raw) ==
    \/ raw.kind = "unparseable"
    \/ /\ raw.kind = "json"
       /\ \/ raw.value.type # "object"
          \/ raw.value.messages.type # "array"

C16_NoError == cPc = "loaded" => ~cOut.threw

C16_AbsentCreated ==
    (cPc = "loaded" /\ cIn.kind = "absent") =>
        /\ cOut.data.messages = JsonArray(<<>>)
        /\ \A c \in CONTACTS :
             Cardinality({k \in cOut.data.conversations : k.peerId = c}) = 1
        /\ cOut.stored = RawJson(cOut.data)

C16_NotSequenceEmptied ==
    (/\ cPc = "loaded" /\ cIn.kind = "json" /\ cIn.value.type = "object"
     /\ cIn.value.messages.type # "array") =>
        /\ ValidSnapshot(cOut.data)
        /\ cOut.data.messages.items = <<>>

C16_MalformedEmptied ==
    (cPc = "loaded" /\ Malformed(cIn)) =>
        /\ ValidSnapshot(cOut.data)
        /\ cOut.data.messages.items = <<>>

\* C16: load raises no error; an absent snapshot becomes one conversation per
\* contact with no messages, persisted; a malformed snapshot (unparseable, not
\* an object, messages not a sequence) becomes a valid snapshot with no
\* messages.
C16_LoadNeverFails == C16_NoError /\ C16_AbsentCreated /\ C16_MalformedEmptied

(***************************************************************************)
(* Claims about the cipher (checked under SpecCipher)                      *)
(***************************************************************************)
\* the payload that was decrypted is the one encryptMessage returned
Intact == cOut.cipher = encryptMessage(cIn.conv, cIn.text, cIn.iv)

\* C17: a payload that does not authenticate under the key of the conversation
\* (other conversation id, damaged ciphertext, damaged or missing nonce or
\* data) decrypts to the sentinel and to nothing else.
C17_SentinelOnFailure ==
    (cPc = "decrypted" /\ (~Intact \/ cOut.conv # cIn.conv)) =>
        cOut.text = Sentinel

\* a payload that lost its tag but kept a block of plaintext
C17_Witness ==
    /\ cPc = "decrypted" /\ cOut.conv = cIn.conv
    /\ cIn.text # <<>>
    /\ Has(cOut.cipher, "iv") /\ Has(cOut.cipher, "data")
    /\ Len(cOut.cipher.data) = Len(cIn.text)
    /\ cOut.cipher.data = SubSeq(encryptMessage(cIn.conv, cIn.text, cIn.iv).data,
                                 1, Len(cIn.text))
    /\ cOut.text = Sentinel

\* C18: decrypt(c, encrypt(c, t)) = t for every conversation id c and string t.
C18_RoundTrip ==
    (cPc = "decrypted" /\ Intact /\ cOut.conv = cIn.conv) =>
        cOut.text = cIn.text

\* the same for texts of ordinary characters
C18_RoundTripPlain ==
    (/\ cPc = "decrypted" /\ Intact /\ cOut.conv = cIn.conv
     /\ \A i \in 1..Len(cIn.text) : cIn.text[i] \notin {BOM, LoneSurrogate}) =>
        cOut.text = cIn.text

(***************************************************************************)
(* Claims about editing (checked under Spec)                               *)
(***************************************************************************)
\* the fields of a message an edit must leave alone
KeptByEdit == {"status", "seenAt", "createdAt", "deleted"}

SameField(a, b, f) ==
    /\ Has(a, f) <=> Has(b, f)
    /\ Has(a, f) => a[f] = b[f]

\* C19: the commit of an edit of message M leaves M's status, seenAt,
\* createdAt and deleted flag, and every other stored message, as they were in
\* storage just before the commit.
C19_EditChangesOnlyCipher ==
    [][\A t \in editTask :
         (t.phase = "encrypting" /\ editTask' = {}) =>
            \A i \in 1..Len(store) :
                \E j \in 1..Len(store') :
                    /\ store'[j].id = store[i].id
                    /\ store[i].id # t.id => store'[j] = store[i]
                    /\ store[i].id = t.id =>
                          \A f \in KeptByEdit : SameField(store[i], store'[j], f)]_vars

\* the text is empty once trimmed
Blank(text) == \A i \in 1..Len(text) : IsSpace(text[i])

\* C20: an edit committed with a text that is empty after trimming, or equal
\* to the decrypted original, saves nothing: storage is as it was (cipher kept,
\* no editedAt), no nonce is drawn and no save is left pending.
C20_NoOpEdit ==
    [][\A t \in editTask :
         (/\ t.phase = "editing"
          /\ lastOp'.op = "edit"
          /\ Blank(lastOp'.text) \/ lastOp'.text = t.original) =>
            /\ store' = store
            /\ nextIv' = nextIv
            /\ editTask' = {}]_vars

\* an edit has just been committed with nothing but a space in the bubble
C20_Witness ==
    /\ lastOp.op = "edit" /\ lastOp.text # <<>> /\ Blank(lastOp.text)
    /\ editTask = {}
    /\ \E i \in 1..Len(store) : store[i].id = lastOp.id /\ ~Has(store[i], "editedAt")

\* an edit has just been committed with the original text in the bubble
C20_WitnessSame ==
    /\ lastOp.op = "edit" /\ ~Blank(lastOp.text) /\ lastOp.res = "noop"
    /\ editTask = {}

C21_PeerNeverEdited ==
    \A i \in 1..Len(store) : store[i].from # Me => ~Has(store[i], "editedAt")

C21_TombstonedEditNoOp ==
    [][\A t \in editTask :
         (/\ t.phase = "encrypting" /\ editTask' = {}
          /\ \E i \in 1..Len(store) : store[i].id = t.id /\ IsDeleted(store[i])) =>
            store' = store]_vars

\* C21: editedAt is never set on a message of the peer, and the commit of an
\* edit of a message that is tombstoned in storage changes nothing in storage.
C21_EditOnlyMineLive == [](C21_PeerNeverEdited) /\ C21_TombstonedEditNoOp

(***************************************************************************)
(* Claims about sending (checked under SpecSend)                           *)
(***************************************************************************)
\* C22: a click on Send with an empty or whitespace-only composer leaves
\* storage as it is, arms no delivery timer and no reply timer, starts no send
\* and does not touch the duplicate-submit record.
C22_BlankRejected ==
    [][\A raw \in ClickTexts :
         (Blank(raw) /\ onSendClick(raw)) =>
            /\ store' = store
            /\ timeouts' = timeouts
            /\ botTimers' = botTimers
            /\ sendTask' = sendTask /\ sending' = sending
            /\ lastSend' = lastSend /\ lastBot' = lastBot]_vars

\* Send has just been clicked on a composer holding one space, in an open
\* chat with no send under way, after an earlier send was accepted
C22_Witness ==
    /\ lastOp.op = "send" /\ lastOp.res = "blank" /\ lastOp.text = <<" ">>
    /\ peerId # NoPeer /\ ~sending
    /\ lastSend # <<>>

(***************************************************************************)
(* Claims about delivery (checked under SpecReplyFair)                     *)
(***************************************************************************)
\* the ids a run of SpecReply can give to messages it appends
AppendedIds == (Len(SeedMessages) + 1)..(Len(SeedMessages) + 2 * ReplySends)

\* the array holds my message id with this status
HeldIn(messages, id, status) ==
    \E i \in 1..Len(messages) :
        /\ messages[i].id = id
        /\ messages[i].from = Me
        /\ messages[i].status = status

HeldAs(id, status) == HeldIn(store, id, status)

C23_AppendedSent ==
    [][\A t \in sendTask : sendTask' = {} => HeldIn(store', nextId, "sent")]_vars

C23_EventuallyDelivered ==
    \A id \in AppendedIds : HeldAs(id, "sent") ~> HeldAs(id, "delivered")

C23_NeverSentAgain ==
    [][\A id \in AppendedIds :
          HeldAs(id, "delivered") => ~HeldIn(store', id, "sent")]_vars

\* C23: an accepted send appends a message with status sent; with the timers
\* running, storage eventually holds it as delivered, and never as sent again
\* after that, whatever sends, replies and edits run in between.
C23_SentThenDelivered ==
    C23_AppendedSent /\ C23_EventuallyDelivered /\ C23_NeverSentAgain

(***************************************************************************)
(* Claims about status updates (checked under SpecById)                    *)
(***************************************************************************)
\* the status update is asked for a status no later than the one stored at i
NotLater(i) ==
    /\ cIn.messages[i].id = cIn.id
    /\ StatusRank(cIn.status) <= StatusRank(cIn.messages[i].status)

\* C24: a status update that asks for a status earlier than or equal to the
\* stored one leaves the message's status and seenAt as they were.
C24_NeverBackward ==
    cPc = "status" =>
        \A i \in 1..Len(cIn.messages) :
            NotLater(i) =>
                /\ Len(cOut.messages) = Len(cIn.messages)
                /\ SameField(cOut.messages[i], cIn.messages[i], "status")
                /\ SameField(cOut.messages[i], cIn.messages[i], "seenAt")

(***************************************************************************)
(* Claims about undo (checked under Spec)                                  *)
(***************************************************************************)
\* what a bubble shows of a stored message: text, status, receipts, tombstone
Shown(m) ==
    [cipher |-> m.cipher,
     status |-> m.status,
     seenAt |-> IF Has(m, "seenAt") THEN <<m.seenAt>> ELSE <<>>,
     editedAt |-> IF Has(m, "editedAt") THEN <<m.editedAt>> ELSE <<>>,
     deleted |-> IsDeleted(m)]

\* what is stored under an id
StoredAs(messages, id) ==
    {Shown(messages[i]) : i \in {j \in 1..Len(messages) : messages[j].id = id}}

\* C25: an activation of Undo for a message that is stored without a
\* tombstone (restored already, say by an earlier activation of the same
\* Undo) leaves the stored message's text, status, seenAt and editedAt as
\* they are.
C25_UndoOnlyTombstoned ==
    [][(/\ lastOp'.op = "undo"
        /\ \E m \in StoredAs(store, lastOp'.id) : ~m.deleted)
       => StoredAs(store', lastOp'.id) = StoredAs(store, lastOp'.id)]_vars

(***************************************************************************)
(* Claims about the arrival of a reply (checked under Spec)                *)
(***************************************************************************)
\* the conversation c is the open one
IsOpen(c) == peerId # NoPeer /\ getConversationId(peerId) = c

\* the reply of task t is stored under id with the given status
ReplyStored(messages, id, t, status) ==
    \E i \in 1..Len(messages) :
        /\ messages[i].id = id
        /\ messages[i].convId = t.convId
        /\ messages[i].from = t.peerId
        /\ getConversationId(messages[i].from) = t.convId
        /\ messages[i].to = Me
        /\ messages[i].status = status

\* the end of a reply timer's callback stores the reply in the conversation
\* of the send that armed the timer, from that conversation's peer, as
\* delivered, or as seen when that conversation is the open one
C26_ReplyAppended ==
    [][\A t \in botTasks :
          botTasks' = botTasks \ {t} =>
              \/ ReplyStored(store', nextId, t, "delivered")
              \/ IsOpen(t.convId) /\ ReplyStored(store', nextId, t, "seen")]_vars

\* messages holds id as seen
SeenIn(messages, id) ==
    \E i \in 1..Len(messages) :
        messages[i].id = id /\ messages[i].status = "seen"

\* a handler under way or a toast holds a copy of the message, loaded while
\* it was stored as seen; no such copy exists of a reply that has not been
\* seen yet
SeenCopy(id) ==
    \/ \E t \in sendTask \cup botTasks \cup editTask : SeenIn(t.data, id)
    \/ \E t \in toasts : t.id = id /\ t.snapshot.status = "seen"

\* a message of a peer that is stored as delivered, and of which no copy is
\* held as seen, is stored as seen after a step only if its conversation is
\* the open one
C26_SeenOnlyWhenOpen ==
    [][\A i \in 1..Len(store), j \in 1..Len(store') :
          (/\ store[i].id = store'[j].id
           /\ store[i].from # Me
           /\ ~SeenCopy(store[i].id)
           /\ store[i].status = "delivered"
           /\ store'[j].status = "seen") => IsOpen(store[i].convId)]_vars

\* C26: a reply is appended to the conversation of the triggering send, from
\* that conversation's peer, with status delivered, whichever conversation is
\* open when the timer fires; it is marked seen by the firing only if that
\* conversation is the open one, and otherwise stays delivered while that
\* conversation is not open.
C26_ReplyArrives == C26_ReplyAppended /\ C26_SeenOnlyWhenOpen

\* a reply has just arrived for the first contact, as delivered, while the
\* second contact's conversation was open
C26_Witness ==
    /\ lastOp.op = "reply" /\ lastOp.res = "away"
    /\ peerId = "u-2"
    /\ \E i \in 1..Len(store) :
          /\ store[i].id = lastOp.id
          /\ store[i].convId = getConversationId("u-1")
          /\ store[i].from = "u-1"
          /\ store[i].status = "delivered"

\* a reply has just arrived for a chat that was closed in the meantime
C26_WitnessClosed ==
    /\ lastOp.op = "reply" /\ lastOp.res = "away"
    /\ peerId = NoPeer
    /\ \E i \in 1..Len(store) :
          store[i].id = lastOp.id /\ store[i].status = "delivered"

(***************************************************************************)
(* Claims about duplicate suppression (checked under SpecDup)              *)
(***************************************************************************)
\* my messages of a conversation: one per accepted send, createdAt being the
\* time of the send and ids growing with the order of the sends
MineIn(c) ==
    {store[i] : i \in {j \in 1..Len(store) :
                          store[j].convId = c /\ store[j].from = Me}}

\* the last accepted send for conversation c had this text, less than 600 ms
\* before ts
RepeatsLastSend(c, text, ts) ==
    \E m \in MineIn(c) :
        /\ \A o \in MineIn(c) : o.id <= m.id
        /\ decryptMessage(c, m.cipher) = text
        /\ ts - m.createdAt < DUP_WINDOW_MS

\* a send that repeats the last accepted send of its conversation within
\* 600 ms is dropped
C27_SendKeyedPerConversation ==
    [][(/\ lastOp'.op = "send" /\ ~sending
        /\ RepeatsLastSend(getConversationId(peerId), lastOp'.text, now))
       => lastOp'.res = "dup"]_vars

\* the reply timer pending for a conversation was armed less than 600 ms ago
\* for this text: the last accepted scheduling for the conversation
RepeatsLastReply(b, c, text) ==
    /\ b.kind = "bot" /\ b.convId = c /\ b.userText = text
    /\ \A delay \in BotDelays : now - (b.due - delay) < DUP_WINDOW_MS

\* a reply scheduling that repeats the last accepted one of its conversation
\* within 600 ms is dropped: the timer armed by that one stays pending
C27_ReplyKeyedPerConversation ==
    [][\A t \in sendTask : sendTask' = {} =>
          \A b \in timeouts :
              RepeatsLastReply(b, t.convId, t.text) => b \in timeouts']_vars

\* C27: duplicate suppression is keyed per conversation, for sends and for
\* reply scheduling: a repetition of the last accepted text of conversation A
\* within 600 ms is dropped, also when a send or a reply scheduling for a
\* conversation B was accepted in between.
C27_KeyedPerConversation ==
    C27_SendKeyedPerConversation /\ C27_ReplyKeyedPerConversation

(***************************************************************************)
(* Claims about the unread list (checked under SpecView)                   *)
(***************************************************************************)
\* the read marker of the open conversation, 0 if none is stored
ReadMarker == IF cIn.lastRead = <<>> THEN 0 ELSE cIn.lastRead[1]

\* m is unread: a peer's live message created after the read marker
IsUnread(m) == m.createdAt > ReadMarker /\ m.from # Me /\ ~IsDeleted(m)

\* C28: the unread list holds exactly the messages of the visible slice that
\* were created after the read marker, are not mine and are not tombstoned,
\* each once, in ascending createdAt order; without a stored marker the
\* marker is 0.
C28_Unread ==
    (cPc = "unread" /\ cIn.peerId # NoPeer) =>
        LET slice == getVisibleMessages(cIn.messages, cIn.peerId,
                                        cIn.pageIndex).slice
            rank(m) == Cardinality({j \in 1..Len(slice) :
                           IsUnread(slice[j]) /\ slice[j].createdAt <= m.createdAt})
        IN /\ \A i \in 1..Len(cOut.unread) :
                \E j \in 1..Len(slice) :
                    cOut.unread[i] = slice[j] /\ IsUnread(slice[j])
           /\ \A j \in 1..Len(slice) :
                IsUnread(slice[j]) => cOut.unread[rank(slice[j])] = slice[j]
           /\ Len(cOut.unread) =
                Cardinality({j \in 1..Len(slice) : IsUnread(slice[j])})
           /\ cOut.count = Len(cOut.unread)
           /\ \A i \in 1..(Len(cOut.unread) - 1) :
                cOut.unread[i].createdAt <= cOut.unread[i + 1].createdAt

\* a slice that holds peer messages from before and from after the marker,
\* a message of mine from after it, in a conversation with a peer's
\* tombstone from after it
C28_Witness ==
    /\ cPc = "unread" /\ cIn.peerId = "u-1" /\ cIn.lastRead = <<20500>>
    /\ cOut.count > 0
    /\ LET slice == getVisibleMessages(cIn.messages, cIn.peerId,
                                       cIn.pageIndex).slice
       IN /\ \E j \in 1..Len(slice) :
               slice[j].from # Me /\ slice[j].createdAt <= ReadMarker
          /\ \E j \in 1..Len(slice) :
               slice[j].from = Me /\ slice[j].createdAt > ReadMarker
    /\ \E i \in 1..Len(cIn.messages) :
          /\ IsDeleted(cIn.messages[i]) /\ cIn.messages[i].from # Me
          /\ cIn.messages[i].convId = getConversationId("u-1")
          /\ cIn.messages[i].createdAt > ReadMarker

\* no marker is stored: every live peer message of the slice is unread
C28_WitnessNoMarker ==
    /\ cPc = "unread" /\ cIn.peerId = "u-1" /\ cIn.lastRead = <<>>
    /\ cOut.count > 0
    /\ cOut.unread = UnreadAnyTime(getVisibleMessages(cIn.messages, cIn.peerId,
                                        cIn.pageIndex).slice, 0)

(***************************************************************************)
(* Claims about paging (checked under SpecView)                            *)
(***************************************************************************)
\* the window of page k ends within the live messages of the conversation
WithinLive(k, live) == k = 0 \/ PAGE_SIZE * k < live

\* C29: reaching the top moves pageIndex on by one only when
\* PAGE_SIZE * (pageIndex + 1) is less than the number of non-tombstoned
\* messages of the open conversation, and leaves it alone otherwise; so a
\* pageIndex that is 0 or has PAGE_SIZE * pageIndex below that number is
\* followed by one of the same kind.
C29_PageWithinLive ==
    (cPc = "scrolled" /\ cIn.peerId # NoPeer) =>
        LET live == Cardinality(LiveAt(cIn.messages, cIn.peerId)) IN
        /\ cOut.pageIndex \in {cIn.pageIndex, cIn.pageIndex + 1}
        /\ cOut.pageIndex = cIn.pageIndex + 1 =>
               PAGE_SIZE * (cIn.pageIndex + 1) < live
        /\ WithinLive(cIn.pageIndex, live) => WithinLive(cOut.pageIndex, live)

(***************************************************************************)
(* Claims about the frame of marking read (checked under SpecSeen)         *)
(***************************************************************************)
\* markAllSeenIfAtBottom ran with a conversation open and the list near its
\* bottom
MarkedOpen == cPc = "marked" /\ cIn.nearBottom /\ cIn.peerId # NoPeer

\* b is a with, at most, another status and seenAt
SameButReceipt(a, b) ==
    /\ DOMAIN b = DOMAIN a \cup {"seenAt"}
    /\ \A f \in DOMAIN a \ {"status", "seenAt"} : b[f] = a[f]

\* C30: marking conversation C read changes nothing but status and seenAt of
\* the messages of C that are not mine, not tombstoned and not seen yet: every
\* other stored message is left as it was, seenAt of a seen message included;
\* and the read marker of C is set to the time of the call whether or not a
\* message changed.
C30_MarkSeenFrame ==
    MarkedOpen =>
        /\ Len(cOut.messages) = Len(cIn.messages)
        /\ \A i \in 1..Len(cIn.messages) :
              IF i \in Unseen
              THEN SameButReceipt(cIn.messages[i], cOut.messages[i])
              ELSE cOut.messages[i] = cIn.messages[i]
        /\ cOut.lastRead \in {SeenNow, SeenNow + 1}

\* nothing to mark: a seen peer message, a message of mine and a message of
\* another conversation are stored; the marker moves all the same
C30_Witness ==
    /\ MarkedOpen /\ Unseen = {}
    /\ \E i \in 1..Len(cIn.messages) :
          cIn.messages[i].from # Me /\ cIn.messages[i].status = "seen"
    /\ \E i \in 1..Len(cIn.messages) : cIn.messages[i].from = Me
    /\ \E i \in 1..Len(cIn.messages) :
          cIn.messages[i].convId # getConversationId(cIn.peerId)
    /\ cOut.lastRead # cIn.lastRead

\* one message to mark next to a tombstone and a seen message
C30_WitnessMarked ==
    /\ MarkedOpen /\ Cardinality(Unseen) = 1
    /\ \E i \in 1..Len(cIn.messages) : IsDeleted(cIn.messages[i])
    /\ \E i \in 1..Len(cIn.messages) :
          cIn.messages[i].from # Me /\ cIn.messages[i].status = "seen"
    /\ cOut.messages # cIn.messages

(***************************************************************************)
(* Claims about the typing signal (checked under SpecTyping)               *)
(***************************************************************************)
\* C31: every keystroke turns the signal on and leaves exactly one timer
\* pending, due 800 ms later, in place of the one that was pending; so at
\* most one debounce timer is pending at any time, and when the timer turns
\* the signal off at least 800 ms have passed since the last keystroke.
C31_TrailingDebounce ==
    /\ Cardinality(cOut.timers) <= 1
    /\ cPc = "input" =>
          /\ cOut.peerTyping
          /\ cOut.timers = {[tid |-> cOut.typingTimer,
                             due |-> cOut.now + TYPING_MS]}
    /\ cPc = "timeout" =>
          /\ ~cOut.peerTyping
          /\ cOut.now - cOut.lastInput >= TYPING_MS

\* the timer has turned the signal off after a keystroke that cancelled the
\* timer of an earlier one, 400 ms after it
C31_Witness ==
    /\ cPc = "timeout" /\ cOut.keys >= 2
    /\ cOut.lastInput = TypingTick
    /\ ~cOut.peerTyping

(***************************************************************************)
(* Claims about which entry a merge keeps (checked under SpecCompact)      *)
(***************************************************************************)
\* the places in the array given to saveData of the entries that carry id
PlacesOf(id) ==
    {i \in 1..Len(cIn) : Has(cIn[i], "id") /\ cIn[i].id = id}

FirstAt(id) == CHOOSE i \in PlacesOf(id) : \A j \in PlacesOf(id) : i <= j
LastAt(id) == CHOOSE i \in PlacesOf(id) : \A j \in PlacesOf(id) : j <= i

\* the ids of the array given to saveData
GivenIds == {cIn[i].id : i \in {j \in 1..Len(cIn) : Has(cIn[j], "id")}}

\* what the identity merge keeps for an id: the last entry that carries it
KeptFor(id) == cIn[LastAt(id)]

\* the entries kept for two ids fall into one fingerprint group with one
\* createdAt
Tied(a, b) ==
    /\ a # b
    /\ Fingerprint(KeptFor(a)) = Fingerprint(KeptFor(b))
    /\ CreatedAtOr0(KeptFor(a)) = CreatedAtOr0(KeptFor(b))

\* every message saveData writes is the last entry of its id in the array
\* it was given
C32_LastPerId ==
    cPc = "saved" =>
        \A j \in 1..Len(cOut) :
            /\ Has(cOut[j], "id")
            /\ cOut[j].id \in GivenIds
            /\ cOut[j] = KeptFor(cOut[j].id)

\* C32 as amended: the entry kept for an id is the last one that carries the
\* id in the array given to saveData; of two kept entries tied on fingerprint
\* and createdAt, the one whose id occurs first later in the array wins (the
\* identity merge hands the kept entries on in the order of the first
\* occurrence of their ids).
C32_LastWriteWins ==
    /\ C32_LastPerId
    /\ cPc = "saved" =>
          \A a \in GivenIds, b \in GivenIds :
              (Tied(a, b) /\ FirstAt(a) < FirstAt(b)) =>
                  KeptFor(a) \notin Range(cOut)

\* C32: the entry kept for an id is the last one that carries the id in the
\* array given to saveData, and of two kept entries tied on fingerprint and
\* createdAt the one encountered later in that array wins.
C32_LaterInGivenWins ==
    /\ C32_LastPerId
    /\ cPc = "saved" =>
          \A a \in GivenIds, b \in GivenIds :
              (Tied(a, b) /\ LastAt(a) < LastAt(b)) =>
                  KeptFor(a) \notin Range(cOut)

\* an id given twice with different entries, the later of which ties with
\* the entry of another id that follows it
C32_Witness ==
    /\ cPc = "saved"
    /\ \E a \in GivenIds, b \in GivenIds :
          /\ cIn[FirstAt(a)] # KeptFor(a)
          /\ Tied(a, b) /\ FirstAt(a) < FirstAt(b)
          /\ KeptFor(b) \in Range(cOut)

(***************************************************************************)
(* Claims about the status of my own messages (checked under Spec)         *)
(***************************************************************************)
\* the places in storage of the messages sendMessage appended: mine, and not
\* of the seed
SentAt ==
    {i \in 1..Len(store) :
        store[i].from = Me /\ store[i].id > Len(SeedMessages)}

\* C33: a message appended by sendMessage is stored with status sent or
\* delivered in every reachable state, never seen.
C33_MineNeverSeen ==
    \A i \in SentAt : store[i].status \in {"sent", "delivered"}

\* a reply has just arrived and been marked seen in the open conversation,
\* where a message I sent is stored as delivered
C33_Witness ==
    /\ lastOp.op = "reply" /\ lastOp.res = "read"
    /\ \E i \in SentAt, j \in 1..Len(store) :
          /\ store[i].status = "delivered"
          /\ store[j].id = lastOp.id
          /\ store[j].convId = store[i].convId
          /\ store[j].status = "seen"

(***************************************************************************)
(* Claims about the send under way (checked under SpecFlight)              *)
(***************************************************************************)
\* the flag is up exactly while one send is suspended
C34_OneInFlight ==
    [](Cardinality(sendTask) <= 1 /\ (sending <=> sendTask # {}))

\* a sendMessage called while the flag is up changes nothing
C34_BusyDropped ==
    [][(sending /\ \E text \in InputTexts : SendMessage(text))
       => UNCHANGED <<store, sendTask, sending, timeouts, botTimers, botTasks,
                      lastSend, lastBot, nextId, nextIv>>]_vars

\* the end of the suspended send clears the flag, whether it pushed or threw
C34_FlagCleared == [][(sendTask # {} /\ sendTask' = {}) => ~sending']_vars

\* C34: at most one send is in flight; a send invoked while another is
\* suspended on encryption appends nothing and schedules nothing, whatever
\* its text or conversation; the end of the suspended send clears the
\* in-flight flag, also when encryption throws, so the flag never stays up.
C34_SingleFlight ==
    /\ C34_OneInFlight
    /\ C34_BusyDropped
    /\ C34_FlagCleared
    /\ (sending ~> ~sending)

\* a send was just refused in the second contact's chat while the send made
\* in the first contact's chat was suspended
C34_Witness ==
    /\ lastOp.op = "send" /\ lastOp.res = "busy"
    /\ sending /\ peerId = "u-2"
    /\ \E t \in sendTask :
          t.convId = getConversationId("u-1") /\ t.text # lastOp.text

\* encryption threw, and a later send was accepted
C34_WitnessThrew ==
    /\ sending /\ sendsLeft = 0
    /\ Len(store) = Len(SeedMessages)
    /\ nextId = Len(SeedMessages) + 1

\* the send that has just completed
DoneSend == CHOOSE t \in cOut.done : TRUE

\* C35, first half: when a send made in conversation A has completed, the
\* stored draft of A is removed.
C35_DraftOfSendRemoved ==
    (cPc = "sent") => cOut.drafts[DoneSend.convId] = <<>>

\* C35, second half: the step that completes a send leaves the stored
\* draft of every other conversation as it was.
C35_OtherDraftsKept ==
    [][(cOut.task # {} /\ cOut'.task = {}) =>
          \A k \in DraftKeys :
              k # (CHOOSE t \in cOut.task : TRUE).convId =>
                  cOut'.drafts[k] = cOut.drafts[k]]_vars

\* C35: a send made in conversation A removes the stored draft of A and
\* never modifies the stored draft of any other conversation B, also when
\* the user switches to B or closes the chat while the send is suspended on
\* encryption.
C35_SendDraftFrame ==
    [][(cOut.task # {} /\ cOut'.task = {}) =>
          LET a == (CHOOSE t \in cOut.task : TRUE).convId IN
          /\ cOut'.drafts[a] = <<>>
          /\ \A k \in DraftKeys \ {a} : cOut'.drafts[k] = cOut.drafts[k]]_vars

(***************************************************************************)
(* Claims about seenAt                                                     *)
(***************************************************************************)
\* a stored message that is not seen and carries a seenAt
StampedUnseen(m) == m.status \in {"sent", "delivered"} /\ Has(m, "seenAt")

\* every stored message with status seen carries a seenAt
C36_SeenHasSeenAt ==
    \A i \in 1..Len(store) : store[i].status = "seen" => Has(store[i], "seenAt")

\* no step stores a message as sent or delivered with a seenAt unless the
\* message was stored before the step as seen, or with a seenAt already; the
\* first seenAt of a message is therefore stored together with status seen
C36_SeenAtOnlyOnceSeen ==
    [][\A j \in 1..Len(store') :
          StampedUnseen(store'[j]) =>
              \E i \in 1..Len(store) :
                  /\ store[i].id = store'[j].id
                  /\ (store[i].status = "seen" \/ Has(store[i], "seenAt"))]_vars

\* C36: in every reachable persisted state a message with status seen has
\* seenAt set, and a message with status sent or delivered that was never
\* seen has no seenAt.
C36_SeenAtMatchesStatus ==
    /\ \A i \in 1..Len(store) : ~StampedUnseen(store[i])
    /\ []C36_SeenHasSeenAt
    /\ C36_SeenAtOnlyOnceSeen

\* the open conversation has just been read: a peer message is stored as seen
\* with the time of the reading, next to a message that was never seen
C36_Witness ==
    /\ \E i \in 1..Len(store) :
          /\ store[i].from # Me /\ store[i].status = "seen"
          /\ Has(store[i], "seenAt") /\ store[i].seenAt = now
    /\ \E i \in 1..Len(store) :
          store[i].status \in {"sent", "delivered"} /\ ~Has(store[i], "seenAt")

\* a message that was seen once is stored as delivered and keeps its seenAt
C36_WitnessOnceSeen ==
    \E i \in 1..Len(store) : StampedUnseen(store[i])

\* in the application a load finds storage as a save or an earlier load left
\* it, and would write back and return the same array
C37_ReadKeepsStore == LoadData(store) = store

====
